---- MODULE Spec2Model ----
(***************************************************************************)
(* Verification model of the bender session-and-process orchestration      *)
(* layer: the session registry (session_manager.py), the chat and HTTP     *)
(* handlers with the job ledger (slack_handler.py, api.py, job_tracker.py) *)
(* and the process invoker in batch and streaming mode (claude_code.py).   *)
(*                                                                         *)
(* Scheduling model: one cooperative event loop.  Every `await` of the     *)
(* source is a point where the scheduler may run another task; the code    *)
(* between two awaits is one atomic action.                                *)
(***************************************************************************)
EXTENDS Integers, Sequences, FiniteSets, TLC

(***************************************************************************)
(* Bounds of the model.                                                    *)
(***************************************************************************)
MaxUuid == 2
MaxCalls == 4
MaxEvents == 2

\* two conversation threads, two concurrent callers of the registry
Threads == {1, 2}
RClients == {1, 2}

(***************************************************************************)
(* Session ids.  uuid.uuid4() is modelled as a counter (ids 1, 2, ...):    *)
(* every generated id is new.  NoneId is Python's None (dict.get default), *)
(* EmptyId the empty string, ExtId an id supplied by an external caller    *)
(* through set_session.                                                    *)
(***************************************************************************)
NoneId == -1
EmptyId == 0
ExtId == 90

Uuids == 1..MaxUuid

VARIABLES
    sessions,   \* SessionManager._sessions: dict thread_ts -> session_id
    nextUuid,   \* next value uuid.uuid4() returns
    calls,      \* number of registry calls made so far
    dirs,       \* session ids whose ~/.claude/projects/<id> directory exists
    rc,         \* registry callers inside a multi-step method (create, abort)
    obs,        \* the registry call that returned last, with what it returned
    absmap,     \* ghost: last-writer-wins map the registry is specified as
    everAssoc,  \* ghost: ids ever associated with each thread
    jobs,       \* the jobs table of the ledger, rows in creation order
    h,          \* handler tasks: the inbound event each one is processing
    events,     \* number of inbound events received so far
    createdFor, \* ghost: session ids the handlers created for each thread
    lastTimeout, \* ghost: the session id of the thread's last invocation when
                \* it ended in a timeout, NoneId otherwise
    b,          \* the batch invocation (invoke_claude) and its subprocess
    st,         \* the streaming invocation (invoke_claude_streaming)
    pr,         \* a call of _parse_response: its input and its outcome
    cm,         \* the argument list an invocation builds, with its inputs
    sc,         \* one turn of a job with its commit scan (scan_new_commits)
    lg          \* the jobs table and the calls of the ledger in progress

regVars == <<calls, dirs, rc, obs, absmap, everAssoc>>
hVars == <<jobs, h, events, createdFor, lastTimeout>>
invVars == <<b, st>>
ledVars == <<sc, lg>>
nonRegVars == <<hVars, invVars, pr, cm, ledVars>>
nonHVars == <<regVars, invVars, pr, cm, ledVars>>
vars == <<sessions, nextUuid, regVars, hVars, invVars, pr, cm, ledVars>>

(***************************************************************************)
(* The registry operations on the dict, as the code under the lock does    *)
(* them (session_manager.py).                                              *)
(***************************************************************************)
SessGet(s, t) == IF t \in DOMAIN s THEN s[t] ELSE NoneId

SessHas(s, t) == t \in DOMAIN s

\* mutant of SessPut: dict.setdefault, an existing mapping is kept
SessPutIfAbsent(s, t, id) ==
    [u \in (DOMAIN s) \cup {t} |-> IF u \in DOMAIN s THEN s[u] ELSE id]

SessPut(s, t, id) == [u \in (DOMAIN s) \cup {t} |-> IF u = t THEN id ELSE s[u]]

SessDel(s, t) == [u \in (DOMAIN s) \ {t} |-> s[u]]

SessList(s) == {<<t, s[t]>> : t \in DOMAIN s}

\* `if session_id:` -- None and "" are falsy
Truthy(id) == id # NoneId /\ id # EmptyId

(***************************************************************************)
(* Registry callers.  rc[c] is a task inside create_session or             *)
(* abort_session, the two methods with more than one step: its position,   *)
(* thread_ts and local session_id.  The other methods are one step under   *)
(* the lock.  obs is the call that returned last:                          *)
(*   op, thread, retId, retBool   the method, its thread_ts, its result    *)
(*   raised                       the call ended by an exception           *)
(*   wrote, fs        ghost: the call changed the dict; what the           *)
(*                    filesystem answered to abort_session                 *)
(*   expId, wasAssoc, othersKept                                           *)
(*                    ghost: what the specified last-writer-wins map said  *)
(*                    when the method ran under the lock                   *)
(***************************************************************************)
RIdle == [pc |-> "idle", thread |-> 1, sid |-> NoneId, fs |-> "none"]

NoObs ==
    [op |-> "none", thread |-> 1, retId |-> NoneId, retBool |-> FALSE,
     raised |-> FALSE, wrote |-> FALSE, fs |-> "none",
     expId |-> NoneId, wasAssoc |-> FALSE, othersKept |-> TRUE]

Returned(op, t) == [NoObs EXCEPT !.op = op, !.thread = t]

RFree(c) == rc[c].pc = "idle"

\* a caller enters a method of the registry
Call == calls < MaxCalls /\ calls' = calls + 1

OthersSame(s1, s2, t) ==
    \A u \in Threads \ {t} : SessGet(s1, u) = SessGet(s2, u) /\ SessHas(s1, u) = SessHas(s2, u)

\* ghost update of the specified map: a write of id (NoneId = removal)
AbsWrite(t, id) ==
    /\ absmap' = [absmap EXCEPT ![t] = id]
    /\ everAssoc' = IF id = NoneId THEN everAssoc
                    ELSE [everAssoc EXCEPT ![t] = @ \cup {id}]

\* create_session, line 86: the id is generated before the lock is awaited
CreateSessionBegin(c, t) ==
    /\ RFree(c)
    /\ Call
    /\ nextUuid <= MaxUuid
    /\ rc' = [rc EXCEPT ![c] = [RIdle EXCEPT !.pc = "create_lock", !.thread = t,
                                            !.sid = nextUuid]]
    /\ nextUuid' = nextUuid + 1
    /\ UNCHANGED <<sessions, dirs, obs, absmap, everAssoc, nonRegVars>>

\* create_session, lines 87-90: under the lock
CreateSessionWrite(c) ==
    /\ rc[c].pc = "create_lock"
    /\ sessions' = SessPut(sessions, rc[c].thread, rc[c].sid)
    /\ obs' = [Returned("create", rc[c].thread) EXCEPT
                  !.retId = rc[c].sid, !.wrote = TRUE,
                  !.wasAssoc = (rc[c].sid \in everAssoc[rc[c].thread]),
                  !.othersKept = OthersSame(sessions, sessions', rc[c].thread)]
    /\ rc' = [rc EXCEPT ![c] = RIdle]
    /\ AbsWrite(rc[c].thread, rc[c].sid)
    /\ UNCHANGED <<calls, nextUuid, dirs, nonRegVars>>

\* get_session, lines 101-102
GetSession(t) ==
    /\ Call
    /\ obs' = [Returned("get", t) EXCEPT !.retId = SessGet(sessions, t),
                                         !.expId = absmap[t]]
    /\ UNCHANGED <<sessions, nextUuid, dirs, rc, absmap, everAssoc, nonRegVars>>

\* has_session, lines 113-114
HasSession(t) ==
    /\ Call
    /\ obs' = [Returned("has", t) EXCEPT !.retBool = SessHas(sessions, t),
                                         !.expId = absmap[t]]
    /\ UNCHANGED <<sessions, nextUuid, dirs, rc, absmap, everAssoc, nonRegVars>>

\* set_session, lines 123-125: the caller supplies the id
SetSession(t, id) ==
    /\ Call
    /\ sessions' = SessPut(sessions, t, id)
    /\ obs' = [Returned("set", t) EXCEPT
                  !.retId = id, !.wrote = TRUE,
                  !.othersKept = OthersSame(sessions, sessions', t)]
    /\ AbsWrite(t, id)
    /\ UNCHANGED <<nextUuid, dirs, rc, nonRegVars>>

\* remove_session, lines 43-47
RemoveSession(t) ==
    /\ Call
    /\ sessions' = SessDel(sessions, t)
    /\ obs' = [Returned("remove", t) EXCEPT
                  !.retBool = SessHas(sessions, t),
                  !.wrote = (sessions' # sessions),
                  !.expId = absmap[t],
                  !.othersKept = OthersSame(sessions, sessions', t)]
    /\ AbsWrite(t, NoneId)
    /\ UNCHANGED <<nextUuid, dirs, rc, nonRegVars>>

\* list_sessions, lines 28-32
ListSessions ==
    /\ Call
    /\ obs' = [Returned("list", 1) EXCEPT !.retBool = (SessList(sessions) # {})]
    /\ UNCHANGED <<sessions, nextUuid, dirs, rc, absmap, everAssoc, nonRegVars>>

(***************************************************************************)
(* abort_session, lines 58-75.                                             *)
(***************************************************************************)
\* what the filesystem can answer for Path.exists() / shutil.rmtree()
FsOutcomes(id) ==
    IF id \in dirs THEN {"deleted", "rmtree_error", "exists_error"}
    ELSE {"missing", "exists_error"}

\* mutant of AbortAfterFs: the mapping is removed although rmtree failed
AbortAfterFsAlwaysRemove(fsres) ==
    CASE fsres = "deleted" -> "remove"
      [] fsres = "missing" -> "return_false"
      [] fsres = "rmtree_error" -> "remove"
      [] fsres = "exists_error" -> "return_false"

\* lines 63-73: what abort_session does after the filesystem answered;
\* every Exception of the try block is caught and logged
AbortAfterFs(fsres) ==
    CASE fsres = "deleted" -> "remove"
      [] fsres = "missing" -> "return_false"
      [] fsres = "rmtree_error" -> "return_false"
      [] fsres = "exists_error" -> "return_false"

\* lines 59-60: read the mapping under the lock
AbortLookup(c, t) ==
    /\ RFree(c)
    /\ Call
    /\ rc' = [rc EXCEPT ![c] = [RIdle EXCEPT !.pc = "abort_fs", !.thread = t,
                                            !.sid = SessGet(sessions, t)]]
    /\ UNCHANGED <<sessions, nextUuid, dirs, obs, absmap, everAssoc, nonRegVars>>

\* lines 62-68 and 75: the directory check and deletion
AbortFs(c) ==
    /\ rc[c].pc = "abort_fs"
    /\ IF ~Truthy(rc[c].sid)
       THEN /\ obs' = [Returned("abort", rc[c].thread) EXCEPT !.fs = "nosession"]
            /\ rc' = [rc EXCEPT ![c] = RIdle]
            /\ dirs' = dirs
       ELSE \E fsres \in FsOutcomes(rc[c].sid) :
              LET nxt == AbortAfterFs(fsres) IN
              /\ dirs' = IF fsres = "deleted" THEN dirs \ {rc[c].sid} ELSE dirs
              /\ IF nxt = "remove"
                 THEN /\ rc' = [rc EXCEPT ![c] = [@ EXCEPT !.pc = "abort_remove",
                                                           !.fs = fsres]]
                      /\ obs' = obs
                 ELSE /\ rc' = [rc EXCEPT ![c] = RIdle]
                      /\ obs' = [Returned("abort", rc[c].thread) EXCEPT
                                    !.raised = (nxt # "return_false"),
                                    !.fs = fsres]
    /\ UNCHANGED <<calls, sessions, nextUuid, absmap, everAssoc, nonRegVars>>

\* lines 70-71: remove_session under the lock, then return True
AbortRemove(c) ==
    /\ rc[c].pc = "abort_remove"
    /\ sessions' = SessDel(sessions, rc[c].thread)
    /\ obs' = [Returned("abort", rc[c].thread) EXCEPT
                  !.retBool = TRUE, !.fs = rc[c].fs,
                  !.wrote = (sessions' # sessions),
                  !.othersKept = OthersSame(sessions, sessions', rc[c].thread)]
    /\ rc' = [rc EXCEPT ![c] = RIdle]
    /\ AbsWrite(rc[c].thread, NoneId)
    /\ UNCHANGED <<calls, nextUuid, dirs, nonRegVars>>

\* the agent CLI creates the on-disk state of a session it was started with
SessionDirAppears(id) ==
    /\ id \notin dirs
    /\ \E t \in Threads : SessGet(sessions, t) = id
    /\ dirs' = dirs \cup {id}
    /\ UNCHANGED <<calls, sessions, nextUuid, rc, obs, absmap, everAssoc, nonRegVars>>

(***************************************************************************)
(* Texts (job results, agent responses) are sequences of characters.       *)
(* NullText is SQL NULL / Python None in a text column, NoArg an optional  *)
(* argument of update_job that was not supplied.                           *)
(***************************************************************************)
NullText == <<"<null>">>
NoArg == <<"<unset>">>

\* response.result[:5000]
RESULT_LIMIT == 5000

Take(txt, n) == IF Len(txt) <= n THEN txt ELSE SubSeq(txt, 1, n)

\* str.strip() leaves nothing: `not response.result or not response.result.strip()`
IsBlank(txt) == \A i \in 1..Len(txt) : txt[i] = " "

\* the texts the agent answers with
Responses == {<< >>, <<" ">>, <<"a">>}

IsPrefix(p, q) == Len(p) <= Len(q) /\ SubSeq(q, 1, Len(p)) = p

\* the text a result column holds, NULL read as the empty text
TextOf(r) == IF r = NullText THEN << >> ELSE r

(***************************************************************************)
(* The job ledger (job_tracker.py).  A job id is the row's index.          *)
(***************************************************************************)
\* create_job, lines 119-129: one new row, status pending
CreateJob(js, t, sid) ==
    Append(js, [thread |-> t, status |-> "pending", result |-> NullText,
                error |-> NullText, sid |-> sid])

\* update_job, lines 164-206: status always, the other columns when supplied
UpdateJob(js, j, status, result, error) ==
    IF j \in 1..Len(js)
    THEN [js EXCEPT ![j] = [@ EXCEPT !.status = status,
                                     !.result = IF result = NoArg THEN @ ELSE result,
                                     !.error = IF error = NoArg THEN @ ELSE error]]
    ELSE js

\* get_job_by_thread: the most recent job of the thread, 0 when there is none
GetJobByThread(js, t) ==
    LET Mine == {j \in 1..Len(js) : js[j].thread = t}
    IN IF Mine = {} THEN 0 ELSE CHOOSE j \in Mine : \A i \in Mine : i <= j

\* append_to_result: the text is concatenated onto the result column
AppendToResult(js, j, txt) ==
    IF j \in 1..Len(js)
    THEN [js EXCEPT ![j] = [@ EXCEPT !.result = TextOf(@) \o txt]]
    ELSE js

(***************************************************************************)
(* Handler tasks (slack_handler.py handle_mention / handle_message,        *)
(* api.py invoke).  Fields of h[k]:                                        *)
(*   kind, pc, thread   the handler, its position, its thread_ts           *)
(*   sid, job, existing the locals session_id, job_id, existing_job        *)
(*   resp               response.result of the invoker call                *)
(*   before             ghost: the job's result when the turn re-opened it *)
(*   hadJob             ghost: the thread had a job when the event arrived *)
(*   call               session_id and resume of the invoker call          *)
(*   newSid             ghost: the id create_session returned to the task  *)
(*   hadSid             ghost: the thread's session when the event arrived *)
(*   delivered          ghost: the answer or a failure notice was posted   *)
(* A ledger write may fail (the database is locked, the disk is full): the *)
(* call raises and the table is left as it was.  At pc "ledger_raised" the *)
(* exception of a ledger write is leaving the handler.                     *)
(***************************************************************************)
NoCall == [session_id |-> NoneId, resume |-> FALSE]

\* mutant of InvokerArgs: the reply does not ask for a resume
InvokerArgsNoResume(kind, sid) == [session_id |-> sid, resume |-> FALSE]

\* the session_id and resume arguments of the invoker call: handle_message
\* passes resume=True, handle_mention and /api/invoke leave the default
InvokerArgs(kind, sid) == [session_id |-> sid, resume |-> (kind = "reply")]

HIdle ==
    [kind |-> "none", pc |-> "idle", thread |-> 1, sid |-> NoneId, job |-> 0,
     existing |-> FALSE, resp |-> << >>, before |-> NullText, hadJob |-> FALSE,
     call |-> NoCall, newSid |-> NoneId, hadSid |-> NoneId, delivered |-> FALSE]

HTasks == {1, 2}

\* an inbound event is taken by a free task
Receive(k) == h[k].pc = "idle" /\ events < MaxEvents /\ events' = events + 1

\* the handler ends (returns, or an exception leaves it)
HEnd(k) == h' = [h EXCEPT ![k] = HIdle]

HGoto(k, pc) == h' = [h EXCEPT ![k] = [@ EXCEPT !.pc = pc]]

\* handle_mention, lines 41-50: an empty text is answered and dropped
MentionArrives(k, t, blank) ==
    /\ Receive(k)
    /\ h' = [h EXCEPT ![k] = IF blank THEN HIdle
                             ELSE [HIdle EXCEPT !.kind = "mention", !.thread = t,
                                                !.pc = "get_session"]]
    /\ UNCHANGED <<sessions, nextUuid, jobs, createdFor, lastTimeout, nonHVars>>

\* handle_mention, lines 55-56
MentionGetSession(k) ==
    /\ h[k].pc = "get_session"
    /\ LET sid == SessGet(sessions, h[k].thread) IN
       h' = [h EXCEPT ![k] = [@ EXCEPT !.sid = sid, !.hadSid = sid,
                                       !.pc = IF Truthy(sid) THEN "get_job"
                                              ELSE "create_session"]]
    /\ UNCHANGED <<sessions, nextUuid, jobs, events, createdFor, lastTimeout, nonHVars>>

\* handle_message, lines 260-278: bot messages, non-replies, untracked
\* threads and empty texts are ignored
ReplyArrives(k, t, blank) ==
    /\ Receive(k)
    /\ LET sid == SessGet(sessions, t) IN
       h' = [h EXCEPT ![k] = IF ~Truthy(sid) \/ blank THEN HIdle
                             ELSE [HIdle EXCEPT !.kind = "reply", !.thread = t,
                                                !.sid = sid, !.hadSid = sid,
                                                !.pc = "get_job",
                                                !.hadJob = (GetJobByThread(jobs, t) # 0)]]
    /\ UNCHANGED <<sessions, nextUuid, jobs, createdFor, lastTimeout, nonHVars>>

\* api.py invoke, lines 950-960: the posted message's ts is a new thread
InvokeArrives(k, t, posted) ==
    /\ Receive(k)
    /\ ~SessHas(sessions, t)
    /\ GetJobByThread(jobs, t) = 0
    /\ \A o \in HTasks : h[o].pc # "idle" => h[o].thread # t
    /\ h' = [h EXCEPT ![k] = IF ~posted THEN HIdle
                             ELSE [HIdle EXCEPT !.kind = "invoke", !.thread = t,
                                                !.pc = "create_session"]]
    /\ UNCHANGED <<sessions, nextUuid, jobs, createdFor, lastTimeout, nonHVars>>

\* api.py stream_invoke.generate, lines 1307-1312: a session id of its own
\* (uuid4) for the invocation; the thread is the request's or a new one
StreamInvokeArrives(k, t) ==
    /\ Receive(k)
    /\ nextUuid <= MaxUuid
    /\ h' = [h EXCEPT ![k] = [HIdle EXCEPT !.kind = "stream", !.thread = t,
                                           !.sid = nextUuid,
                                           !.pc = "sse_get_session"]]
    /\ nextUuid' = nextUuid + 1
    /\ UNCHANGED <<sessions, jobs, createdFor, lastTimeout, nonHVars>>

\* lines 1313-1316 and 1321-1331: with a session the agent is started with
\* --resume and the thread's session id
StreamInvokeGetSession(k) ==
    /\ h[k].pc = "sse_get_session"
    /\ LET existing == SessGet(sessions, h[k].thread) IN
       h' = [h EXCEPT ![k] =
                IF Truthy(existing)
                THEN [@ EXCEPT !.hadSid = existing, !.pc = "sse_run",
                               !.call = [session_id |-> existing, resume |-> TRUE]]
                ELSE [@ EXCEPT !.hadSid = existing, !.pc = "create_session"]]
    /\ UNCHANGED <<sessions, nextUuid, jobs, events, createdFor, lastTimeout, nonHVars>>

\* lines 1317-1331: after `await sessions.create_session(thread_ts)`, whose
\* result is dropped, the agent is started with --session-id and the
\* handler's own session id
StreamInvokeSpawns(k) ==
    /\ h[k].pc = "sse_spawn"
    /\ h' = [h EXCEPT ![k] = [@ EXCEPT !.pc = "sse_run",
                                       !.call = [session_id |-> h[k].sid,
                                                 resume |-> FALSE]]]
    /\ UNCHANGED <<sessions, nextUuid, jobs, events, createdFor, lastTimeout, nonHVars>>

\* lines 1334-1358: the output is streamed until the agent has finished; the
\* CLI keeps the state of the session it ran with
StreamInvokeEnds(k) ==
    /\ h[k].pc = "sse_run"
    /\ HEnd(k)
    /\ dirs' = dirs \cup {h[k].call.session_id}
    /\ UNCHANGED <<sessions, nextUuid, jobs, events, createdFor, lastTimeout, calls,
                   rc, obs, absmap, everAssoc, invVars, pr, cm, ledVars>>

\* create_session, line 86, called at slack_handler.py:57 / api.py:961 and
\* 1318; the handlers other than stream_invoke keep the id it returns
HandlerCreateBegin(k) ==
    /\ h[k].pc = "create_session"
    /\ nextUuid <= MaxUuid
    /\ h' = [h EXCEPT ![k] = [@ EXCEPT !.sid = IF h[k].kind = "stream" THEN @
                                               ELSE nextUuid,
                                       !.newSid = nextUuid,
                                       !.pc = "create_write"]]
    /\ nextUuid' = nextUuid + 1
    /\ UNCHANGED <<sessions, jobs, events, createdFor, lastTimeout, nonHVars>>

\* create_session, lines 87-90
HandlerCreateWrite(k) ==
    /\ h[k].pc = "create_write"
    /\ sessions' = SessPut(sessions, h[k].thread, h[k].newSid)
    /\ createdFor' = [createdFor EXCEPT ![h[k].thread] = @ \cup {h[k].newSid}]
    /\ HGoto(k, CASE h[k].kind = "invoke" -> "create_job"
                   [] h[k].kind = "stream" -> "sse_spawn"
                   [] OTHER -> "get_job")
    /\ UNCHANGED <<nextUuid, jobs, events, lastTimeout, nonHVars>>

\* mutant of AfterLookup: every turn gets a job of its own
AfterLookupAlwaysCreate(j) == "create_job"

\* `if existing_job:` -- re-open the job found, or create one
AfterLookup(j) == IF j # 0 THEN "reopen" ELSE "create_job"

\* slack_handler.py lines 63-66 / 287-291
HandlerGetJob(k) ==
    /\ h[k].pc = "get_job"
    /\ LET j == GetJobByThread(jobs, h[k].thread) IN
       h' = [h EXCEPT ![k] = [@ EXCEPT !.job = j, !.existing = (j # 0),
                                       !.before = IF j # 0 THEN jobs[j].result ELSE NullText,
                                       !.pc = AfterLookup(j)]]
    /\ UNCHANGED <<sessions, nextUuid, jobs, events, createdFor, lastTimeout, nonHVars>>

\* lines 68-72 / 294-298: the existing job is re-opened
HandlerReopen(k, fails) ==
    /\ h[k].pc = "reopen"
    /\ jobs' = IF fails THEN jobs ELSE UpdateJob(jobs, h[k].job, "running", NoArg, NoArg)
    /\ HGoto(k, IF fails THEN "ledger_raised" ELSE "post_initial")
    /\ UNCHANGED <<sessions, nextUuid, events, createdFor, lastTimeout, nonHVars>>

\* lines 74-79 / 302-307 / api.py 966-971
HandlerCreateJob(k, fails) ==
    /\ h[k].pc = "create_job"
    /\ jobs' = IF fails THEN jobs ELSE CreateJob(jobs, h[k].thread, h[k].sid)
    /\ h' = [h EXCEPT ![k] = IF fails THEN [@ EXCEPT !.pc = "ledger_raised"]
                             ELSE [@ EXCEPT !.job = Len(jobs) + 1, !.pc = "set_running"]]
    /\ UNCHANGED <<sessions, nextUuid, events, createdFor, lastTimeout, nonHVars>>

\* the invoker is called: lines 154-160 / 382-389 / api.py 1001-1009
StartInvoke(r) == [r EXCEPT !.pc = "invoke", !.call = InvokerArgs(r.kind, r.sid)]

\* lines 80-84 / 308-312 / api.py 972-976
HandlerSetRunning(k, fails) ==
    /\ h[k].pc = "set_running"
    /\ jobs' = IF fails THEN jobs ELSE UpdateJob(jobs, h[k].job, "running", NoArg, NoArg)
    /\ h' = [h EXCEPT ![k] = IF fails THEN [@ EXCEPT !.pc = "ledger_raised"]
                             ELSE IF h[k].kind = "invoke" THEN StartInvoke(@)
                             ELSE [@ EXCEPT !.pc = "post_initial"]]
    /\ UNCHANGED <<sessions, nextUuid, events, createdFor, lastTimeout, nonHVars>>

\* lines 87-150 / 315-378: the "processing" message is posted and the first
\* progress update sent and recorded with add_progress_event (144-147); a
\* failing post ends the handler by the exception, and so does a failing
\* add_progress_event
HandlerPostInitial(k, posted, recorded) ==
    /\ h[k].pc = "post_initial"
    /\ IF ~posted THEN HEnd(k)
       ELSE IF ~recorded THEN HGoto(k, "ledger_raised")
       ELSE h' = [h EXCEPT ![k] = StartInvoke(@)]
    /\ UNCHANGED <<sessions, nextUuid, jobs, events, createdFor, lastTimeout, nonHVars>>

\* where the handler goes when the invoker call ends: lines 152-183 and
\* 218-228 / 380-411 and 446-456 / api.py 1001-1055.  outcome is "ok" (a
\* response) or "error" (the call raised); posted tells whether the answer
\* could be posted to the thread
AfterInvoke(kind, existing, outcome, resp, posted) ==
    IF outcome \in {"error", "timeout"} THEN "fail"
    ELSE IF kind = "invoke" THEN (IF posted THEN "complete_set" ELSE "raise")
    ELSE IF ~posted THEN "fail"
    ELSE IF IsBlank(resp) THEN "complete_empty"
    ELSE IF existing THEN "append"
    ELSE "complete_set"

\* ~/.claude/projects after the invoker call: the CLI keeps the state of
\* the session it ran with; on a timeout claude_code.py 190-203 removes it
SessionDirsAfter(ds, outcome, sid) ==
    IF outcome = "timeout" THEN ds \ {sid} ELSE ds \cup {sid}

HandlerInvokeReturns(k, outcome, resp, posted) ==
    /\ h[k].pc = "invoke"
    /\ LET nxt == AfterInvoke(h[k].kind, h[k].existing, outcome, resp, posted) IN
       IF nxt = "raise" THEN HEnd(k)
       ELSE h' = [h EXCEPT ![k] = [@ EXCEPT !.pc = nxt,
                                            !.resp = IF nxt \in {"append", "complete_set"}
                                                     THEN resp ELSE << >>,
                                            !.delivered = (outcome = "ok" /\ posted)]]
    /\ dirs' = SessionDirsAfter(dirs, outcome, h[k].call.session_id)
    /\ lastTimeout' = [lastTimeout EXCEPT ![h[k].thread] =
                          IF outcome = "timeout" THEN h[k].call.session_id ELSE NoneId]
    /\ UNCHANGED <<sessions, nextUuid, jobs, events, createdFor, calls, rc, obs,
                   absmap, everAssoc, invVars, pr, cm, ledVars>>

\* the result argument of the update_job call that completes an empty turn,
\* lines 175-180 / 403-408
EmptyTurnResult == << >>

\* a ledger write of the completion failed: in handle_mention and
\* handle_message it is inside the try and `except Exception` (237 / 465)
\* takes it; in /api/invoke nothing catches it
AfterCompletionFailure(kind) == IF kind = "invoke" THEN "ledger_raised" ELSE "fail"

\* lines 173-181 / 401-409: an empty response completes the job
HandlerCompleteEmpty(k, fails) ==
    /\ h[k].pc = "complete_empty"
    /\ jobs' = IF fails THEN jobs
               ELSE UpdateJob(jobs, h[k].job, "completed", EmptyTurnResult, NoArg)
    /\ IF fails THEN HGoto(k, AfterCompletionFailure(h[k].kind)) ELSE HEnd(k)
    /\ UNCHANGED <<sessions, nextUuid, events, createdFor, lastTimeout, nonHVars>>

\* lines 188-189 / 416-417: the turn's text is appended to a reused job
HandlerAppend(k, fails) ==
    /\ h[k].pc = "append"
    /\ jobs' = IF fails THEN jobs
               ELSE AppendToResult(jobs, h[k].job, Take(h[k].resp, RESULT_LIMIT))
    /\ HGoto(k, IF fails THEN AfterCompletionFailure(h[k].kind) ELSE "complete_tokens")
    /\ UNCHANGED <<sessions, nextUuid, events, createdFor, lastTimeout, nonHVars>>

\* lines 191-198 and 210-217 / 419-426 and 438-445
HandlerCompleteTokens(k, fails) ==
    /\ h[k].pc = "complete_tokens"
    /\ jobs' = IF fails THEN jobs
               ELSE UpdateJob(jobs, h[k].job, "completed", NoArg, NoArg)
    /\ IF fails THEN HGoto(k, AfterCompletionFailure(h[k].kind)) ELSE HEnd(k)
    /\ UNCHANGED <<sessions, nextUuid, events, createdFor, lastTimeout, nonHVars>>

\* lines 200-217 / 428-445 / api.py 1058-1079: a new job gets the text
HandlerCompleteSet(k, fails) ==
    /\ h[k].pc = "complete_set"
    /\ jobs' = IF fails THEN jobs
               ELSE UpdateJob(jobs, h[k].job, "completed",
                              Take(h[k].resp, RESULT_LIMIT), NoArg)
    /\ IF fails THEN HGoto(k, AfterCompletionFailure(h[k].kind)) ELSE HEnd(k)
    /\ UNCHANGED <<sessions, nextUuid, events, createdFor, lastTimeout, nonHVars>>

\* lines 218-254 / 446-482 / api.py 1010-1027: the failure is notified to
\* the thread, then the job is set to failed; when the notification itself
\* raises, the handler ends before the update; when the update raises,
\* its exception leaves the handler
HandlerFail(k, notified, fails) ==
    /\ h[k].pc = "fail"
    /\ jobs' = IF notified /\ ~fails
               THEN UpdateJob(jobs, h[k].job, "failed", NoArg, <<"e">>)
               ELSE jobs
    /\ IF notified /\ fails
       THEN h' = [h EXCEPT ![k] = [@ EXCEPT !.pc = "ledger_raised", !.delivered = TRUE]]
       ELSE HEnd(k)
    /\ UNCHANGED <<sessions, nextUuid, events, createdFor, lastTimeout, nonHVars>>

\* the exception of a ledger write leaves the handler
HandlerLedgerErrorLeaves(k) ==
    /\ h[k].pc = "ledger_raised"
    /\ HEnd(k)
    /\ UNCHANGED <<sessions, nextUuid, jobs, events, createdFor, lastTimeout, nonHVars>>

HInit ==
    /\ jobs = << >>
    /\ h = [k \in HTasks |-> HIdle]
    /\ events = 0
    /\ createdFor = [t \in Threads |-> {}]
    /\ lastTimeout = [t \in Threads |-> NoneId]

HNext ==
    \/ \E k \in HTasks, t \in Threads, blank \in BOOLEAN : MentionArrives(k, t, blank)
    \/ \E k \in HTasks : MentionGetSession(k)
    \/ \E k \in HTasks, t \in Threads, blank \in BOOLEAN : ReplyArrives(k, t, blank)
    \/ \E k \in HTasks, t \in Threads, posted \in BOOLEAN : InvokeArrives(k, t, posted)
    \/ \E k \in HTasks, t \in Threads : StreamInvokeArrives(k, t)
    \/ \E k \in HTasks : StreamInvokeGetSession(k)
    \/ \E k \in HTasks : StreamInvokeSpawns(k)
    \/ \E k \in HTasks : StreamInvokeEnds(k)
    \/ \E k \in HTasks : HandlerCreateBegin(k)
    \/ \E k \in HTasks : HandlerCreateWrite(k)
    \/ \E k \in HTasks : HandlerGetJob(k)
    \/ \E k \in HTasks, fails \in BOOLEAN : HandlerReopen(k, fails)
    \/ \E k \in HTasks, fails \in BOOLEAN : HandlerCreateJob(k, fails)
    \/ \E k \in HTasks, fails \in BOOLEAN : HandlerSetRunning(k, fails)
    \/ \E k \in HTasks, posted \in BOOLEAN, recorded \in BOOLEAN :
          HandlerPostInitial(k, posted, recorded)
    \/ \E k \in HTasks, outcome \in {"ok", "error", "timeout"}, resp \in Responses, posted \in BOOLEAN :
          HandlerInvokeReturns(k, outcome, resp, posted)
    \/ \E k \in HTasks, fails \in BOOLEAN : HandlerCompleteEmpty(k, fails)
    \/ \E k \in HTasks, fails \in BOOLEAN : HandlerAppend(k, fails)
    \/ \E k \in HTasks, fails \in BOOLEAN : HandlerCompleteTokens(k, fails)
    \/ \E k \in HTasks, fails \in BOOLEAN : HandlerCompleteSet(k, fails)
    \/ \E k \in HTasks, notified \in BOOLEAN, fails \in BOOLEAN :
          HandlerFail(k, notified, fails)
    \/ \E k \in HTasks : HandlerLedgerErrorLeaves(k)

(***************************************************************************)
(* The process invoker, batch mode (claude_code.py, invoke_claude).        *)
(*                                                                         *)
(* Time is a clock of seconds since the subprocess was spawned.  It moves  *)
(* in steps of TickSteps; a step never jumps over the deadline of an armed *)
(* asyncio.wait_for, and the clock does not pass the deadline before the   *)
(* timer callback has run.                                                 *)
(***************************************************************************)
MaxTicks == 2
MaxCallbacks == 1

DEFAULT_TIMEOUT_SECONDS == 600

\* actual_timeout = None
NoTimeout == -1

TickSteps == {1, DEFAULT_TIMEOUT_SECONDS}

\* the timeout argument of a call: << >> when the caller supplies none
TimeoutArgs == {<< >>, <<0>>, <<-1>>, <<2>>}

\* session_id argument: None, "" or an id
SessionArgs == {NoneId, EmptyId, 1}

\* parameter default `timeout: int = DEFAULT_TIMEOUT_SECONDS`
TimeoutParam(arg) == IF arg = << >> THEN DEFAULT_TIMEOUT_SECONDS ELSE arg[1]

\* mutant of ActualTimeout: a non-positive timeout falls back to the default
ActualTimeoutDefaulted(timeout) ==
    IF timeout > 0 THEN timeout ELSE DEFAULT_TIMEOUT_SECONDS

\* `actual_timeout = timeout if timeout > 0 else None`
ActualTimeout(timeout) == IF timeout > 0 THEN timeout ELSE NoTimeout

\* `if actual_timeout:` -- None and 0 are falsy
Armed(actual) == actual # NoTimeout /\ actual # 0

\* what a subprocess may write to stderr, as sequences of characters
Whitespace == {" "}
StderrTexts == {<<" ">>, <<"e">>, <<" ", "e", " ">>}

\* str.strip()
RECURSIVE LStrip(_)
LStrip(s) == IF s # << >> /\ Head(s) \in Whitespace THEN LStrip(Tail(s)) ELSE s

RECURSIVE RStrip(_)
RStrip(s) ==
    IF s # << >> /\ s[Len(s)] \in Whitespace
    THEN RStrip(SubSeq(s, 1, Len(s) - 1))
    ELSE s

Strip(s) == RStrip(LStrip(s))

BatchUnknownError == <<"U", "n", "k", "n", "o", "w", "n", " ", "e", "r", "r", "o", "r">>

BatchNoMessage == [code |-> 0, text |-> << >>]

\* mutant of BatchErrorMessage: stderr is put in the message as it came
BatchErrorMessageRaw(code, stderr) ==
    [code |-> code, text |-> IF stderr # << >> THEN stderr ELSE BatchUnknownError]

\* "Claude Code exited with code {returncode}: {error_msg}"
BatchErrorMessage(code, stderr) ==
    [code |-> code,
     text |-> IF stderr # << >> THEN Strip(stderr) ELSE BatchUnknownError]

BIdle ==
    [pc |-> "idle", arg |-> << >>, sid |-> NoneId, actual |-> NoTimeout,
     proc |-> "none", code |-> 0, pipes |-> "none", kills |-> 0,
     waited |-> FALSE, outcome |-> "none", elapsed |-> 0, ticks |-> 0,
     sdir |-> FALSE, progress |-> "none", cbs |-> 0, expired |-> FALSE,
     stderr |-> << >>, msg |-> BatchNoMessage, parsed |-> FALSE]

\* process.communicate() completes: both pipes at EOF and the process reaped
CommunicateDone(i) == i.pipes = "closed" /\ i.proc = "exited"

\* the wait_for timer is due and the awaited call has not completed
TimerDue(i) == Armed(i.actual) /\ i.elapsed >= i.actual

\* the clock after a step of d seconds
Advance(i, d) ==
    IF Armed(i.actual) /\ i.pc = "communicate" /\ i.elapsed + d > i.actual
    THEN i.actual
    ELSE i.elapsed + d

\* invoke_claude up to the await of communicate(); found = FALSE is the
\* FileNotFoundError of create_subprocess_exec
InvokeClaude(arg, sid, cb, found) ==
    /\ b.pc = "idle"
    /\ b' = IF found
            THEN [BIdle EXCEPT !.pc = "communicate", !.arg = arg, !.sid = sid,
                               !.actual = ActualTimeout(TimeoutParam(arg)),
                               !.proc = "running", !.pipes = "open",
                               !.progress = IF cb THEN "running" ELSE "none"]
            ELSE [BIdle EXCEPT !.pc = "done", !.arg = arg, !.sid = sid,
                               !.outcome = "exec_failed"]
    /\ UNCHANGED <<sessions, nextUuid, regVars, hVars, st, pr, cm, ledVars>>

\* the subprocess closes stdout and stderr (or the last holder of them does)
BatchPipesClose ==
    /\ b.proc \in {"running", "killed", "exited"}
    /\ b.pipes = "open"
    /\ b' = [b EXCEPT !.pipes = "closed"]
    /\ UNCHANGED <<sessions, nextUuid, regVars, hVars, st, pr, cm, ledVars>>

\* the subprocess writes its diagnostics to stderr
BatchProcessWritesStderr(text) ==
    /\ b.proc = "running"
    /\ b.pipes = "open"
    /\ b.stderr = << >>
    /\ b' = [b EXCEPT !.stderr = text]
    /\ UNCHANGED <<sessions, nextUuid, regVars, hVars, st, pr, cm, ledVars>>

\* the subprocess exits: by itself with code 0 or 1, or by SIGKILL (-9)
BatchProcessExits(code) ==
    /\ b.proc \in {"running", "killed"}
    /\ b' = [b EXCEPT !.proc = "exited",
                      !.code = IF b.proc = "killed" THEN -9 ELSE code]
    /\ UNCHANGED <<sessions, nextUuid, regVars, hVars, st, pr, cm, ledVars>>

\* the CLI creates ~/.claude/projects/<session_id> while it runs
BatchSessionDirAppears ==
    /\ b.proc = "running"
    /\ Truthy(b.sid)
    /\ ~b.sdir
    /\ b' = [b EXCEPT !.sdir = TRUE]
    /\ UNCHANGED <<sessions, nextUuid, regVars, hVars, st, pr, cm, ledVars>>

BatchTick(d) ==
    /\ b.pc \in {"communicate", "timeout_wait"}
    /\ b.ticks < MaxTicks
    /\ ~(b.pc = "communicate" /\ TimerDue(b))
    /\ b' = [b EXCEPT !.elapsed = Advance(b, d), !.ticks = @ + 1]
    /\ UNCHANGED <<sessions, nextUuid, regVars, hVars, st, pr, cm, ledVars>>

\* progress_loop: the progress task is "running" while it sleeps and
\* "callback" while it awaits progress_callback(); one sleep has elapsed and
\* the callback is called
BatchProgressCallback ==
    /\ b.progress = "running"
    /\ b.cbs < MaxCallbacks
    /\ b' = [b EXCEPT !.cbs = @ + 1, !.progress = "callback"]
    /\ UNCHANGED <<sessions, nextUuid, regVars, hVars, st, pr, cm, ledVars>>

\* progress_callback() returns and the loop sleeps again, or it raises,
\* which ends the progress task
BatchProgressCallbackReturns(raises) ==
    /\ b.progress = "callback"
    /\ b' = [b EXCEPT !.progress = IF raises THEN "dead" ELSE "running"]
    /\ UNCHANGED <<sessions, nextUuid, regVars, hVars, st, pr, cm, ledVars>>

\* mutant of CancelProgress: the progress task is left alone
LeaveProgress(p) == p

\* the finally block: progress_task.cancel() for a task that is not done
CancelProgress(p) == IF p \in {"running", "callback"} THEN "cancelling" ELSE p

\* process returned: the exit-code check and the parse of stdout
ReturnOutcome(code) == IF code # 0 THEN "exit_error" ELSE "result"

\* after the finally block, communicate() having returned
AfterCommunicate(i) ==
    [i EXCEPT !.pc = "done",
              !.outcome = ReturnOutcome(i.code),
              !.msg = IF i.code # 0 THEN BatchErrorMessage(i.code, i.stderr) ELSE @,
              !.parsed = (i.code = 0)]

\* the finally block of lines 177-184: a progress task that is not done is
\* cancelled and awaited (pc "cancel_wait") before go, the rest of the
\* call, runs
Finally(i, go) ==
    LET j == [i EXCEPT !.progress = CancelProgress(@)]
    IN  IF j.progress = "cancelling" THEN [j EXCEPT !.pc = "cancel_wait"] ELSE go

\* communicate() returned before the timer fired
BatchCommunicateReturns ==
    /\ b.pc = "communicate"
    /\ CommunicateDone(b)
    /\ b' = Finally(b, AfterCommunicate(b))
    /\ UNCHANGED <<sessions, nextUuid, regVars, hVars, st, pr, cm, ledVars>>

\* mutant of KillOnTimeout: the handler of the timeout forgets the kill
NoKillOnTimeout(i) == i

\* `process.kill()` of the except asyncio.TimeoutError block
KillOnTimeout(i) ==
    [i EXCEPT !.kills = @ + 1,
              !.proc = IF @ = "running" THEN "killed" ELSE @]

\* wait_for raises TimeoutError: communicate() is cancelled, the finally
\* block cancels the progress task, the process is killed and process.wait()
\* is awaited
BatchTimerFires ==
    /\ b.pc = "communicate"
    /\ TimerDue(b)
    /\ ~CommunicateDone(b)
    /\ b' = Finally([b EXCEPT !.expired = TRUE],
                    [KillOnTimeout(b) EXCEPT !.pc = "timeout_wait", !.expired = TRUE])
    /\ UNCHANGED <<sessions, nextUuid, regVars, hVars, st, pr, cm, ledVars>>

\* the cancelled progress task ends with CancelledError, in its sleep or in
\* its callback; `await progress_task` returns and the call goes on: to the
\* exit-code check, or to the except asyncio.TimeoutError block
BatchProgressTaskEnds ==
    /\ b.pc = "cancel_wait"
    /\ b.progress = "cancelling"
    /\ b' = IF b.expired
            THEN [KillOnTimeout(b) EXCEPT !.pc = "timeout_wait",
                                          !.progress = "cancelled"]
            ELSE AfterCommunicate([b EXCEPT !.progress = "cancelled"])
    /\ UNCHANGED <<sessions, nextUuid, regVars, hVars, st, pr, cm, ledVars>>

\* the session directory after the best-effort cleanup: removed only when
\* session_id is truthy, the directory exists and rmtree succeeds
AfterCleanup(sid, sdir, rmok) == IF Truthy(sid) /\ sdir /\ rmok THEN FALSE ELSE sdir

\* process.wait() returned after the kill: cleanup, then the timeout error
BatchWaitReturns(rmok) ==
    /\ b.pc = "timeout_wait"
    /\ b.proc = "exited"
    /\ b' = [b EXCEPT !.pc = "done", !.waited = TRUE,
                      !.sdir = AfterCleanup(b.sid, b.sdir, rmok),
                      !.outcome = "timeout"]
    /\ UNCHANGED <<sessions, nextUuid, regVars, hVars, st, pr, cm, ledVars>>

BatchNext ==
    \/ \E arg \in TimeoutArgs, sid \in SessionArgs, cb \in BOOLEAN, found \in BOOLEAN :
          InvokeClaude(arg, sid, cb, found)
    \/ BatchPipesClose
    \/ \E text \in StderrTexts : BatchProcessWritesStderr(text)
    \/ \E code \in {0, 1} : BatchProcessExits(code)
    \/ BatchSessionDirAppears
    \/ \E d \in TickSteps : BatchTick(d)
    \/ BatchProgressCallback
    \/ \E raises \in BOOLEAN : BatchProgressCallbackReturns(raises)
    \/ BatchCommunicateReturns
    \/ BatchTimerFires
    \/ BatchProgressTaskEnds
    \/ \E rmok \in BOOLEAN : BatchWaitReturns(rmok)

(***************************************************************************)
(* The process invoker, streaming mode (claude_code.py,                    *)
(* invoke_claude_streaming).  Three tasks: the caller's task, the stdout    *)
(* reader read_stream and the stderr reader read_stderr.                   *)
(***************************************************************************)
MaxLines == 2
MaxErrLines == 1
MaxStreamTicks == 1

STREAMING_UPDATE_INTERVAL == 15

\* on_stderr_line forwards a line when at least 1.5 s passed since the last
\* one it forwarded; on the clock of whole seconds that is 2 s
StderrInterval == 2

\* what a line of stdout can be: empty after strip(), not JSON, bytes that
\* are not UTF-8, or a JSON event of one of the types read_stream handles
LineKinds ==
    {"blank", "nonjson", "baddecode", "assistant", "delta", "tool_use",
     "tool_result", "thinking", "result", "error"}

\* the name a tool_use event carries in tool.name, "absent" when its tool
\* object has no name (or the event no tool object)
ToolNames == {"Bash", "absent"}

\* the lines the subprocess can write: only a tool_use event has a tool
StreamLines ==
    {[kind |-> k, tool |-> "none"] : k \in LineKinds \ {"tool_use"}}
      \cup {[kind |-> "tool_use", tool |-> t] : t \in ToolNames}

StreamTimeoutArgs == {<< >>, <<0>>, <<1>>}

StreamSessionArgs == {NoneId, 1}

NoProgress ==
    [text |-> << >>, tool |-> "none", status |-> "none", thinking |-> FALSE,
     total_cost |-> 0, input_tokens |-> 0, output_tokens |-> 0]

\* what the result event on line n of stdout reports: its result text, the
\* session id the agent chose, its token counts and cost
AgentSid == 91
ResultText(n) == [i \in 1..n |-> "r"]
ResultEvent(n) ==
    [result |-> ResultText(n), session_id |-> AgentSid, input_tokens |-> n,
     output_tokens |-> n + 1, total_cost_usd |-> n + 2]

\* the text a subprocess wrote to stderr: n lines
StderrText(n) == [i \in 1..n |-> "e"]

UnknownError == <<"Unknown error">>

NoMessage == [code |-> 0, text |-> << >>]

\* "Claude Code exited with code {returncode}: {error_msg}", error_msg being
\* what process.stderr.read() still finds (unread lines), or 'Unknown error'
ExitErrorMessage(code, unread) ==
    [code |-> code, text |-> IF unread > 0 THEN StderrText(unread) ELSE UnknownError]

\* lastSent (the time progress_callback was last awaited by
\* maybe_send_update), finals (the final updates awaited), outAppend and
\* errAppend (the callback the stdout / stderr reader awaits is in
\* add_progress_event), lastMsg (the text of the last assistant event read)
\* and deltas (the texts of the text deltas read since) are ghosts
SIdle ==
    [pc |-> "idle", arg |-> << >>, sid |-> NoneId, actual |-> NoTimeout,
     cb |-> FALSE, proc |-> "none", code |-> 0,
     out |-> "none", buf |-> << >>, emitted |-> 0,
     err |-> "none", errBuf |-> 0, errEmitted |-> 0,
     rd |-> "none", er |-> "none", exc |-> "none",
     line_count |-> 0, progress |-> NoProgress, final_result |-> << >>,
     returned_session_id |-> EmptyId, lastResult |-> 0,
     lastUpdate |-> 0, lastErr |-> 0, current_time |-> 0, errTime |-> 0,
     lastSent |-> 0, finals |-> 0, outAppend |-> FALSE, errAppend |-> FALSE,
     lastMsg |-> << >>, deltas |-> << >>,
     kills |-> 0, waited |-> FALSE, outcome |-> "none", msg |-> NoMessage,
     elapsed |-> 0, ticks |-> 0,
     errorSeen |-> FALSE, afterError |-> FALSE, overran |-> FALSE]

\* `line.decode()` of a line that is not UTF-8 raises UnicodeDecodeError
DecodeFails(kind) == kind = "baddecode"

\* the exception the body of the try raises for a line: json.loads on text
\* that is not JSON; the raise of the error branch; and the result branch:
\* final_result and returned_session_id are assigned in read_stream without
\* a nonlocal declaration, so they are locals of read_stream, and line 485
\* reads returned_session_id (the default of event.get) before any
\* assignment to it: UnboundLocalError, before lines 486-488 run and with
\* the variables of invoke_claude_streaming untouched
HandlingException(kind) ==
    CASE kind = "nonjson" -> "JSONDecodeError"
      [] kind = "result" -> "UnboundLocalError"
      [] kind = "error" -> "ClaudeCodeError"
      [] OTHER -> "none"

\* `except Exception` of the loop body: every exception class above is one
SwallowedInLoop(exc) ==
    exc \in {"JSONDecodeError", "UnboundLocalError", "ClaudeCodeError", "CallbackError"}

\* event.get("tool", {}).get("name", "unknown")
ToolNameOf(line) == IF line.tool = "absent" THEN "unknown" ELSE line.tool

\* mutant of ApplyEvent: tool_result leaves the status, tool_use the flag
ApplyEventPartly(p, line) ==
    CASE line.kind = "assistant" ->
             [p EXCEPT !.text = <<"a">>, !.thinking = FALSE, !.tool = "none"]
      [] line.kind = "delta" -> [p EXCEPT !.text = Append(@, "a")]
      [] line.kind = "tool_use" ->
             [p EXCEPT !.tool = ToolNameOf(line), !.status = "running"]
      [] line.kind = "thinking" -> [p EXCEPT !.thinking = TRUE, !.tool = "none"]
      [] OTHER -> p

\* the writes to `progress` a line makes before it fails or finishes
ApplyEvent(p, line) ==
    CASE line.kind = "assistant" ->
             [p EXCEPT !.text = <<"a">>, !.thinking = FALSE, !.tool = "none"]
      [] line.kind = "delta" -> [p EXCEPT !.text = Append(@, "a")]
      [] line.kind = "tool_use" ->
             [p EXCEPT !.tool = ToolNameOf(line), !.status = "running",
                       !.thinking = FALSE]
      [] line.kind = "tool_result" -> [p EXCEPT !.status = "completed"]
      [] line.kind = "thinking" -> [p EXCEPT !.thinking = TRUE, !.tool = "none"]
      [] OTHER -> p

\* the branches that end in maybe_send_update
SendsUpdate(kind) == kind \in {"assistant", "tool_use", "tool_result", "thinking"}

\* the branches that call maybe_send_update(force=True)
ForcedUpdate(kind) == kind \in {"tool_use", "tool_result"}

\* mutant of ReadLine: the newest buffered line is returned
ReadLineNewest(buf) ==
    [line |-> buf[Len(buf)], rest |-> SubSeq(buf, 1, Len(buf) - 1)]

\* process.stdout.readline(): the oldest line of the pipe
ReadLine(buf) == [line |-> Head(buf), rest |-> Tail(buf)]

\* the callback of the HTTP invoke (update_progress) calls
\* add_progress_event when the progress says thinking or names a tool
CallsAppend(p) == p.thinking \/ p.tool # "none"

\* maybe_send_update(force) awaits progress_callback
UpdateDue(s, force) ==
    s.cb /\ (force \/ s.elapsed - s.lastUpdate >= STREAMING_UPDATE_INTERVAL)

\* the ClaudeResponse of lines 561-568
StreamResponse(s) ==
    [result |-> s.final_result, session_id |-> s.returned_session_id,
     is_error |-> FALSE, input_tokens |-> s.progress.input_tokens,
     output_tokens |-> s.progress.output_tokens,
     total_cost |-> s.progress.total_cost]

\* `raise` / `raise ClaudeCodeError("Streaming invocation failed: ...")`
FailureOutcome(exc) ==
    IF exc = "ClaudeCodeError" THEN "agent_error" ELSE "stream_failed"

\* `process.returncode is None`
ReturncodeIsNone(s) == s.proc \in {"running", "killed"}

StreamKill(s) ==
    [s EXCEPT !.kills = @ + 1, !.proc = IF @ = "running" THEN "killed" ELSE @]

\* mutant of OuterExcept: the error is re-raised without looking at the process
OuterExceptNoKill(s, exc) ==
    [s EXCEPT !.pc = "done", !.exc = exc, !.outcome = FailureOutcome(exc)]

\* the outer `except Exception`: kill and wait when the process has not
\* been reaped, then re-raise
OuterExcept(s, exc) ==
    IF ReturncodeIsNone(s)
    THEN [StreamKill(s) EXCEPT !.pc = "exc_wait", !.exc = exc]
    ELSE [s EXCEPT !.pc = "done", !.exc = exc, !.outcome = FailureOutcome(exc)]

\* a reader task that has not finished is cancelled
CancelTask(t) == IF t \in {"reading", "callback"} THEN "cancelled" ELSE t

StreamTimerDue(s) == Armed(s.actual) /\ s.elapsed >= s.actual

StreamAdvance(s, d) ==
    IF Armed(s.actual) /\ s.pc = "reading" /\ s.elapsed + d > s.actual
    THEN s.actual
    ELSE s.elapsed + d

\* invoke_claude_streaming up to the await of the readers
InvokeClaudeStreaming(arg, sid, cb, found) ==
    /\ st.pc = "idle"
    /\ st' = IF found
             THEN [SIdle EXCEPT
                      !.arg = arg, !.sid = sid, !.cb = cb,
                      !.actual = ActualTimeout(TimeoutParam(arg)),
                      !.pc = IF Armed(ActualTimeout(TimeoutParam(arg)))
                             THEN "reading" ELSE "gather",
                      !.proc = "running", !.out = "open", !.err = "open",
                      !.rd = "reading", !.er = "reading",
                      !.returned_session_id = IF Truthy(sid) THEN sid ELSE EmptyId]
             ELSE [SIdle EXCEPT !.pc = "done", !.arg = arg, !.sid = sid,
                                !.cb = cb, !.outcome = "exec_failed"]
    /\ UNCHANGED <<sessions, nextUuid, regVars, hVars, b, pr, cm, ledVars>>

\* the subprocess writes one line to stdout
StreamProcessWrites(line) ==
    /\ st.pc # "done"
    /\ st.proc = "running"
    /\ st.out = "open"
    /\ st.emitted < MaxLines
    /\ st' = [st EXCEPT !.buf = Append(@, [kind |-> line.kind, tool |-> line.tool,
                                           n |-> st.emitted + 1]),
                        !.emitted = @ + 1]
    /\ UNCHANGED <<sessions, nextUuid, regVars, hVars, b, pr, cm, ledVars>>

\* the subprocess writes one line to stderr
StreamProcessWritesStderr ==
    /\ st.pc # "done"
    /\ st.proc = "running"
    /\ st.err = "open"
    /\ st.errEmitted < MaxErrLines
    /\ st' = [st EXCEPT !.errBuf = @ + 1, !.errEmitted = @ + 1]
    /\ UNCHANGED <<sessions, nextUuid, regVars, hVars, b, pr, cm, ledVars>>

\* stdout reaches EOF: the subprocess (or the last holder) closes it
StreamStdoutCloses ==
    /\ st.pc # "done"
    /\ st.out = "open"
    /\ st' = [st EXCEPT !.out = "closed"]
    /\ UNCHANGED <<sessions, nextUuid, regVars, hVars, b, pr, cm, ledVars>>

StreamStderrCloses ==
    /\ st.pc # "done"
    /\ st.err = "open"
    /\ st' = [st EXCEPT !.err = "closed"]
    /\ UNCHANGED <<sessions, nextUuid, regVars, hVars, b, pr, cm, ledVars>>

StreamProcessExits(code) ==
    /\ st.pc # "done"
    /\ st.proc \in {"running", "killed"}
    /\ st' = [st EXCEPT !.proc = "exited",
                        !.code = IF st.proc = "killed" THEN -9 ELSE code]
    /\ UNCHANGED <<sessions, nextUuid, regVars, hVars, b, pr, cm, ledVars>>

\* the clock moves; overran records that it moved past the timeout while
\* the subprocess was running and had not been killed
StreamTick(d) ==
    /\ st.pc \notin {"idle", "done"}
    /\ st.ticks < MaxStreamTicks
    /\ ~(st.pc = "reading" /\ StreamTimerDue(st))
    /\ st' = [st EXCEPT !.elapsed = StreamAdvance(st, d), !.ticks = @ + 1,
                        !.overran = @ \/ (/\ Armed(st.actual)
                                          /\ StreamAdvance(st, d) > st.actual
                                          /\ st.proc = "running")]
    /\ UNCHANGED <<sessions, nextUuid, regVars, hVars, b, pr, cm, ledVars>>

\* read_stream: readline() returned a line; one pass of the loop body up to
\* its next await
ReadStreamLine ==
    /\ st.rd = "reading"
    /\ st.buf # << >>
    /\ LET line == ReadLine(st.buf).line
           kind == line.kind
           exc == HandlingException(kind)
           due == exc = "none" /\ SendsUpdate(kind) /\ UpdateDue(st, ForcedUpdate(kind))
           s1 == [st EXCEPT !.buf = ReadLine(@).rest,
                            !.lastResult = IF kind = "result"
                                           THEN st.line_count + 1 ELSE @,
                            !.errorSeen = @ \/ kind = "error",
                            !.afterError = @ \/ (st.errorSeen /\ ~DecodeFails(kind)
                                                   /\ kind # "blank")]
       IN  st' = IF DecodeFails(kind)
                 THEN [s1 EXCEPT !.rd = "raised", !.exc = "UnicodeDecodeError"]
                 ELSE IF kind = "blank"
                 THEN [s1 EXCEPT !.line_count = @ + 1]
                 ELSE [s1 EXCEPT
                         !.line_count = @ + 1,
                         !.progress = ApplyEvent(@, line),
                         !.rd = IF exc # "none"
                                THEN IF SwallowedInLoop(exc) THEN "reading" ELSE "raised"
                                ELSE IF due THEN "callback" ELSE "reading",
                         !.current_time = IF due THEN st.elapsed ELSE @,
                         !.lastSent = IF due THEN st.elapsed ELSE @,
                         !.outAppend = due /\ CallsAppend(ApplyEvent(st.progress, line)),
                         !.lastMsg = IF kind = "assistant" THEN <<"a">> ELSE @,
                         !.deltas = CASE kind = "assistant" -> << >>
                                      [] kind = "delta" -> Append(@, "a")
                                      [] OTHER -> @,
                         !.exc = IF exc # "none" /\ ~SwallowedInLoop(exc) THEN exc ELSE @]
    /\ UNCHANGED <<sessions, nextUuid, regVars, hVars, b, pr, cm, ledVars>>

\* read_stream: readline() returned b"" (EOF), the loop breaks
ReadStreamEof ==
    /\ st.rd = "reading"
    /\ st.buf = << >>
    /\ st.out = "closed"
    /\ st' = [st EXCEPT !.rd = "done"]
    /\ UNCHANGED <<sessions, nextUuid, regVars, hVars, b, pr, cm, ledVars>>

\* progress_callback awaited by maybe_send_update inside the loop returns,
\* or raises into the `except Exception` of the loop
StreamCallbackReturns(raises) ==
    /\ st.rd = "callback"
    /\ st' = [st EXCEPT
                !.rd = IF raises /\ ~SwallowedInLoop("CallbackError")
                       THEN "raised" ELSE "reading",
                !.lastUpdate = IF raises THEN @ ELSE st.current_time,
                !.current_time = 0, !.outAppend = FALSE]
    /\ UNCHANGED <<sessions, nextUuid, regVars, hVars, b, pr, cm, ledVars>>

\* read_stderr: one line; on_stderr_line forwards it to progress_callback
\* when there is one and the rate limit allows
ReadStderrLine ==
    /\ st.pc # "done"
    /\ st.er = "reading"
    /\ st.errBuf > 0
    /\ st' = IF st.cb /\ st.elapsed - st.lastErr >= StderrInterval
             THEN [st EXCEPT !.errBuf = @ - 1, !.er = "callback",
                             !.errTime = st.elapsed,
                             !.errAppend =
                                 CallsAppend([st.progress EXCEPT !.tool = "none",
                                                                 !.status = "none",
                                                                 !.text = <<"$">>]),
                             !.progress = [@ EXCEPT !.tool = "none", !.status = "none",
                                                    !.text = <<"$">>]]
             ELSE [st EXCEPT !.errBuf = @ - 1]
    /\ UNCHANGED <<sessions, nextUuid, regVars, hVars, b, pr, cm, ledVars>>

ReadStderrEof ==
    /\ st.pc # "done"
    /\ st.er = "reading"
    /\ st.errBuf = 0
    /\ st.err = "closed"
    /\ st' = [st EXCEPT !.er = "done"]
    /\ UNCHANGED <<sessions, nextUuid, regVars, hVars, b, pr, cm, ledVars>>

\* the callback awaited by on_stderr_line returns, or raises out of
\* read_stderr (nothing catches it there)
StderrCallbackReturns(raises) ==
    /\ st.pc # "done"
    /\ st.er = "callback"
    /\ st' = [st EXCEPT !.er = IF raises THEN "raised" ELSE "reading",
                        !.lastErr = IF raises THEN @ ELSE st.errTime,
                        !.errTime = 0, !.errAppend = FALSE]
    /\ UNCHANGED <<sessions, nextUuid, regVars, hVars, b, pr, cm, ledVars>>

\* timeout branch: wait_for(stdout_task) returns, or re-raises what
\* read_stream raised
StreamStdoutTaskEnds ==
    /\ st.pc = "reading"
    /\ st.rd \in {"done", "raised"}
    /\ st' = IF st.rd = "done"
             THEN [st EXCEPT !.pc = "await_stderr"]
             ELSE OuterExcept(st, st.exc)
    /\ UNCHANGED <<sessions, nextUuid, regVars, hVars, b, pr, cm, ledVars>>

\* timeout branch: wait_for raises TimeoutError; both readers are cancelled
\* and the process is killed and waited on when it has not been reaped
StreamTimerFires ==
    /\ st.pc = "reading"
    /\ StreamTimerDue(st)
    /\ st.rd \in {"reading", "callback"}
    /\ LET s1 == [st EXCEPT !.rd = CancelTask(@), !.er = CancelTask(@)]
       IN  st' = IF ReturncodeIsNone(s1)
                 THEN [StreamKill(s1) EXCEPT !.pc = "timeout_wait"]
                 ELSE [s1 EXCEPT !.pc = "done", !.outcome = "timeout"]
    /\ UNCHANGED <<sessions, nextUuid, regVars, hVars, b, pr, cm, ledVars>>

\* process.wait() after the kill returned; 'timed out' is raised
StreamTimeoutWaitReturns ==
    /\ st.pc = "timeout_wait"
    /\ st.proc = "exited"
    /\ st' = [st EXCEPT !.pc = "done", !.waited = TRUE, !.outcome = "timeout"]
    /\ UNCHANGED <<sessions, nextUuid, regVars, hVars, b, pr, cm, ledVars>>

\* timeout branch: `await stderr_task` returns or re-raises
StreamStderrTaskEnds ==
    /\ st.pc = "await_stderr"
    /\ st.er \in {"done", "raised"}
    /\ st' = IF st.er = "done"
             THEN [st EXCEPT !.pc = "wait"]
             ELSE OuterExcept(st, "CallbackError")
    /\ UNCHANGED <<sessions, nextUuid, regVars, hVars, b, pr, cm, ledVars>>

\* no-timeout branch: gather(..., return_exceptions=True) returns when both
\* readers have ended, whichever way
StreamGatherReturns ==
    /\ st.pc = "gather"
    /\ st.rd \in {"done", "raised"}
    /\ st.er \in {"done", "raised"}
    /\ st' = [st EXCEPT !.pc = "wait"]
    /\ UNCHANGED <<sessions, nextUuid, regVars, hVars, b, pr, cm, ledVars>>

\* `await process.wait()` returned: exit-code check, then the final update
StreamWaitReturns ==
    /\ st.pc = "wait"
    /\ st.proc = "exited"
    /\ st' = IF st.code # 0
             THEN [st EXCEPT !.pc = "exit_read"]
             ELSE [st EXCEPT
                     !.progress = [@ EXCEPT !.tool = "none", !.status = "none",
                                            !.thinking = FALSE],
                     !.pc = IF st.cb THEN "final_update" ELSE "done",
                     !.current_time = IF st.cb THEN st.elapsed ELSE @,
                     !.lastSent = IF st.cb THEN st.elapsed ELSE @,
                     !.finals = IF st.cb THEN @ + 1 ELSE @,
                     !.outcome = IF st.cb THEN @ ELSE "result"]
    /\ UNCHANGED <<sessions, nextUuid, regVars, hVars, b, pr, cm, ledVars>>

\* `await process.stderr.read()` of the exit-code check returned (at EOF of
\* stderr) with what read_stderr had not consumed; the error is raised
StreamExitReadReturns ==
    /\ st.pc = "exit_read"
    /\ st.err = "closed"
    /\ st' = [st EXCEPT !.pc = "done", !.outcome = "exit_error", !.errBuf = 0,
                        !.msg = ExitErrorMessage(st.code, st.errBuf)]
    /\ UNCHANGED <<sessions, nextUuid, regVars, hVars, b, pr, cm, ledVars>>

\* the forced final update returned (the response is returned) or raised
StreamFinalUpdateReturns(raises) ==
    /\ st.pc = "final_update"
    /\ st' = IF raises
             THEN OuterExcept(st, "CallbackError")
             ELSE [st EXCEPT !.pc = "done", !.outcome = "result",
                             !.lastUpdate = st.current_time, !.current_time = 0]
    /\ UNCHANGED <<sessions, nextUuid, regVars, hVars, b, pr, cm, ledVars>>

\* process.wait() of the outer except returned; the error is re-raised
StreamExcWaitReturns ==
    /\ st.pc = "exc_wait"
    /\ st.proc = "exited"
    /\ st' = [st EXCEPT !.pc = "done", !.waited = TRUE,
                        !.outcome = FailureOutcome(st.exc)]
    /\ UNCHANGED <<sessions, nextUuid, regVars, hVars, b, pr, cm, ledVars>>

StreamNext ==
    \/ \E arg \in StreamTimeoutArgs, sid \in StreamSessionArgs, cb \in BOOLEAN,
          found \in BOOLEAN : InvokeClaudeStreaming(arg, sid, cb, found)
    \/ \E line \in StreamLines : StreamProcessWrites(line)
    \/ StreamProcessWritesStderr
    \/ StreamStdoutCloses
    \/ StreamStderrCloses
    \/ \E code \in {0, 1} : StreamProcessExits(code)
    \/ \E d \in TickSteps : StreamTick(d)
    \/ ReadStreamLine
    \/ ReadStreamEof
    \/ \E raises \in BOOLEAN : StreamCallbackReturns(raises)
    \/ ReadStderrLine
    \/ ReadStderrEof
    \/ \E raises \in BOOLEAN : StderrCallbackReturns(raises)
    \/ StreamStdoutTaskEnds
    \/ StreamTimerFires
    \/ StreamTimeoutWaitReturns
    \/ StreamStderrTaskEnds
    \/ StreamGatherReturns
    \/ StreamWaitReturns
    \/ StreamExitReadReturns
    \/ \E raises \in BOOLEAN : StreamFinalUpdateReturns(raises)
    \/ StreamExcWaitReturns

(***************************************************************************)
(* Response parsing (claude_code.py, _parse_response).                     *)
(*                                                                         *)
(* JSON values are tokens: "absent" (the key is missing), "null", "false", *)
(* "true", "0", "5", "s:" (the empty string), "s:x" (the string x),        *)
(* "list" and "dict" (a non-empty array / object).  The raw stdout is a    *)
(* sequence of characters: the text ("x" for text that is not JSON, "J"   *)
(* for a JSON document) with or without white space around it; the token  *)
(* of a raw text t is "r:" followed by its characters.                     *)
(***************************************************************************)
MaxArray == 2

\* raw stdout texts: text that is not JSON (the empty string and white space
\* included), and a JSON document, which json.loads accepts with white space
\* around it
NotJsonTexts == {<< >>, <<" ">>, <<"x">>, <<" ", "x", " ">>, <<"x", " ", "x">>}
JsonTexts == {<<"J">>, <<" ", "J", " ">>}

RECURSIVE Chars(_)
Chars(s) == IF s = << >> THEN "" ELSE Head(s) \o Chars(Tail(s))

\* the string token of a text
StrToken(s) == "r:" \o Chars(s)

\* mutant of RawResult: the raw text as it came
RawResultUntrimmed(raw) == StrToken(raw)

\* raw_output.strip()
RawResult(raw) == StrToken(Strip(raw))

RawResults == {RawResult(t) : t \in NotJsonTexts \cup JsonTexts}

\* Python truthiness: None, False, 0 and "" are falsy
IsTruthy(v) == v \notin {"absent", "null", "false", "0", "s:"}

\* len(v) is defined for strings, lists and dicts; TypeError otherwise
HasLen(v) == v \in {"s:", "s:a", "s:b", "s:A", "list", "dict"} \cup RawResults

\* dict.get(key, default)
Get(d, key, default) == IF d[key] = "absent" THEN default ELSE d[key]

\* `x or 0`
OrZero(v) == IF IsTruthy(v) THEN v ELSE "0"

TextBlock(text) == [dict |-> TRUE, type |-> "s:text", text |-> text]
ToolBlock == [dict |-> TRUE, type |-> "s:tool_use", text |-> "absent"]
NonDictBlock == [dict |-> FALSE, type |-> "absent", text |-> "absent"]

\* the content lists of the assistant messages of the model
BlockLists ==
    {<<TextBlock("s:a")>>, <<TextBlock("s:"), TextBlock("s:b")>>,
     <<NonDictBlock, TextBlock("s:a")>>, <<ToolBlock>>, <<TextBlock("5")>>,
     <<TextBlock("s:a"), TextBlock("s:b")>>}

BaseEvent ==
    [dict |-> TRUE, type |-> "absent", subtype |-> "absent", result |-> "absent",
     session_id |-> "absent", is_error |-> "absent", input_tokens |-> "absent",
     output_tokens |-> "absent", total_cost_usd |-> "absent",
     message |-> "absent", content |-> "absent", blocks |-> << >>]

\* events (and objects): final-result events by type or subtype, success
\* events, assistant messages of every shape, other events, and array
\* elements that are not objects
ResultEvents ==
    {[BaseEvent EXCEPT !.type = ty, !.subtype = st2, !.result = r,
                       !.session_id = sid, !.is_error = ie,
                       !.input_tokens = tok, !.output_tokens = tok,
                       !.total_cost_usd = tok] :
        ty \in {"s:result"}, st2 \in {"absent"}, r \in {"absent", "s:", "s:a", "5"},
        sid \in {"absent", "s:A"}, ie \in {"absent", "true"},
        tok \in {"absent", "null", "5"}}
      \cup {[BaseEvent EXCEPT !.subtype = "s:result", !.result = "s:b"],
            [BaseEvent EXCEPT !.type = "s:system", !.subtype = "s:success",
                              !.result = "s:b"],
            [BaseEvent EXCEPT !.type = "s:system", !.subtype = "s:success",
                              !.result = "5"]}

AssistantEvents ==
    {[BaseEvent EXCEPT !.type = "s:assistant", !.message = m] :
        m \in {"absent", "null", "str"}}
      \cup {[BaseEvent EXCEPT !.type = "s:assistant", !.message = "dict",
                              !.content = c] :
               c \in {"absent", "null", "int", "str"}}
      \cup {[BaseEvent EXCEPT !.type = "s:assistant", !.message = "dict",
                              !.content = "list", !.blocks = bl] :
               bl \in BlockLists}

OtherEvents ==
    {[BaseEvent EXCEPT !.type = "s:system"], [BaseEvent EXCEPT !.dict = FALSE]}

ArrayEvents ==
    {e \in ResultEvents : e.input_tokens # "null"}
      \cup AssistantEvents \cup OtherEvents

\* top-level objects: the fields of a result event, present or missing
Objects == {[e EXCEPT !.type = "absent"] : e \in {x \in ResultEvents : x.type = "s:result"}}

\* a stdout text: what json.loads makes of it
\*   shape "notjson"  json.loads raises JSONDecodeError (the empty string too)
\*   a shape of ScalarShapes: a number, a string, null or a boolean
\*   shape "object"   obj holds the fields
\*   shape "array"    events holds the elements
ScalarShapes == {"number", "string", "null", "boolean"}

Doc(shape, raw, obj, evs) == [shape |-> shape, raw |-> raw, obj |-> obj, events |-> evs]

ArraysUpTo(n) == UNION {[1..k -> ArrayEvents] : k \in 0..n}

ParseInputs ==
    {Doc("notjson", t, BaseEvent, << >>) : t \in NotJsonTexts}
      \cup {Doc(shape, t, BaseEvent, << >>) : shape \in ScalarShapes, t \in JsonTexts}
      \cup {Doc("object", t, o, << >>) : o \in Objects, t \in JsonTexts}
      \cup {Doc("array", t, BaseEvent, ev) : ev \in ArraysUpTo(MaxArray), t \in JsonTexts}

\* what _parse_response does: a ClaudeResponse, or an exception (exc)
Response(result, session_id, is_error, input_tokens, output_tokens, total_cost) ==
    [exc |-> "none", result |-> result, session_id |-> session_id,
     is_error |-> is_error, input_tokens |-> input_tokens,
     output_tokens |-> output_tokens, total_cost |-> total_cost]

Raises(exc) ==
    [exc |-> exc, result |-> "absent", session_id |-> "absent",
     is_error |-> "absent", input_tokens |-> "absent",
     output_tokens |-> "absent", total_cost |-> "absent"]

\* lines 233-238: the locals of the scan
ScanStart(session_id) ==
    [final_result |-> "s:", returned_session_id |-> session_id,
     is_error |-> "false", input_tokens |-> "0", output_tokens |-> "0",
     total_cost |-> "0"]

\* lines 241-253: one event of the first loop
ScanStep(acc, ev) ==
    IF ~ev.dict THEN acc
    ELSE LET event_type == IF IsTruthy(ev.type) THEN ev.type ELSE ev.subtype
         IN  IF event_type = "s:result"
             THEN [final_result |-> Get(ev, "result", "s:"),
                   returned_session_id |->
                       Get(ev, "session_id", acc.returned_session_id),
                   is_error |-> Get(ev, "is_error", "false"),
                   input_tokens |-> OrZero(Get(ev, "input_tokens", "0")),
                   output_tokens |-> OrZero(Get(ev, "output_tokens", "0")),
                   total_cost |-> OrZero(Get(ev, "total_cost_usd", "0"))]
             ELSE IF ev.subtype = "s:success"
             THEN [acc EXCEPT !.final_result = Get(ev, "result", acc.final_result)]
             ELSE acc

RECURSIVE Scan(_, _)
Scan(evs, acc) ==
    IF evs = << >> THEN acc ELSE Scan(Tail(evs), ScanStep(acc, Head(evs)))

\* results of the search for a text block
NoText == [k |-> "none", v |-> "absent"]
FoundText(text) == [k |-> "text", v |-> text]
SearchRaises(exc) == [k |-> "raise", v |-> exc]

\* lines 272-281: the blocks of one content list
RECURSIVE BlockSearch(_)
BlockSearch(blocks) ==
    IF blocks = << >> THEN NoText
    ELSE LET blk == Head(blocks)
             text == Get(blk, "text", "s:")
         IN  IF blk.dict /\ blk.type = "s:text" /\ IsTruthy(text)
             THEN IF HasLen(text) THEN FoundText(text) ELSE SearchRaises("TypeError")
             ELSE BlockSearch(Tail(blocks))

\* lines 268-272: one event of the second loop
MessageSearch(ev) ==
    IF ~ev.dict \/ ev.type # "s:assistant" THEN NoText
    ELSE IF ev.message = "absent" THEN NoText
    ELSE IF ev.message # "dict" THEN SearchRaises("AttributeError")
    ELSE IF ev.content \in {"absent", "str"} THEN NoText
    ELSE IF ev.content # "list" THEN SearchRaises("TypeError")
    ELSE BlockSearch(ev.blocks)

\* lines 267-281: the first assistant text, or the exception on the way
RECURSIVE EventSearch(_)
EventSearch(evs) ==
    IF evs = << >> THEN NoText
    ELSE LET r == MessageSearch(Head(evs))
         IN  IF r.k = "none" THEN EventSearch(Tail(evs)) ELSE r

\* lines 230-285
ParseArray(evs, raw, session_id) ==
    LET acc == Scan(evs, ScanStart(session_id))
        found == EventSearch(evs)
    IN  IF IsTruthy(acc.final_result)
        THEN IF HasLen(acc.final_result)
             THEN Response(acc.final_result, acc.returned_session_id, acc.is_error,
                           acc.input_tokens, acc.output_tokens, acc.total_cost)
             ELSE Raises("TypeError")
        ELSE IF found.k = "raise" THEN Raises(found.v)
        ELSE IF found.k = "text"
        THEN Response(found.v, acc.returned_session_id, "false", "0", "0", "0")
        ELSE Response(RawResult(raw), session_id, "false", "0", "0", "0")

\* lines 295-312
ParseObject(obj, raw, session_id) ==
    LET result == Get(obj, "result", RawResult(raw))
    IN  IF IsTruthy(result) /\ ~HasLen(result)
        THEN Raises("TypeError")
        ELSE Response(result, Get(obj, "session_id", session_id),
                      Get(obj, "is_error", "false"),
                      OrZero(Get(obj, "input_tokens", "0")),
                      OrZero(Get(obj, "output_tokens", "0")),
                      OrZero(Get(obj, "total_cost_usd", "0")))

\* mutant of ParseResponse: only the JSON-decode fallback
ParseResponseRawOnly(doc, session_id) ==
    Response(RawResult(doc.raw), session_id, "false", "0", "0", "0")

\* line 227 json.loads, 288-292 the JSONDecodeError fallback, 230 the list
\* branch; for any other value line 287 calls data.keys()
ParseResponse(doc, session_id) ==
    CASE doc.shape = "notjson" ->
             Response(RawResult(doc.raw), session_id, "false", "0", "0", "0")
      [] doc.shape = "array" -> ParseArray(doc.events, doc.raw, session_id)
      [] doc.shape \in ScalarShapes -> Raises("AttributeError")
      [] OTHER -> ParseObject(doc.obj, doc.raw, session_id)

\* the call: pr.input is stdout as parsed by json.loads, pr.out the outcome
PIdle == [pc |-> "idle", input |-> Doc("notjson", << >>, BaseEvent, << >>),
          out |-> Raises("none")]

CallerSid == "s:S"

ParseCall ==
    /\ pr.pc = "call"
    /\ pr' = [pr EXCEPT !.pc = "done", !.out = ParseResponse(pr.input, CallerSid)]
    /\ UNCHANGED <<sessions, nextUuid, regVars, hVars, b, st, cm, ledVars>>

(***************************************************************************)
(* The argument list of the subprocess (claude_code.py lines 126-137 and   *)
(* 346-358).  Arguments are strings; "None" stands for Python's None.      *)
(***************************************************************************)
Executable == "claude"

PromptArgs == {"hello", "--resume", "--session-id"}
SessionIdArgs == {"None", "", "S"}
ModelArgs == {"None", "", "m"}

\* truthiness of an optional string argument
ArgTruthy(a) == a \notin {"None", ""}

\* `if model: cmd.extend(["--model", model])`
ModelSelector(model) == IF ArgTruthy(model) THEN <<"--model", model>> ELSE << >>

\* mutant of SessionSelector: resume is honoured without a session id
SessionSelectorResumeFirst(resume, session_id) ==
    IF resume THEN <<"--resume", session_id>>
    ELSE IF ArgTruthy(session_id) THEN <<"--session-id", session_id>>
    ELSE << >>

\* `if resume and session_id: ... elif session_id: ...`
SessionSelector(resume, session_id) ==
    IF resume /\ ArgTruthy(session_id) THEN <<"--resume", session_id>>
    ELSE IF ArgTruthy(session_id) THEN <<"--session-id", session_id>>
    ELSE << >>

BatchCommand(prompt, session_id, resume, model) ==
    <<Executable, "--print", "--verbose", "--output-format", "json">>
        \o ModelSelector(model) \o SessionSelector(resume, session_id)
        \o <<"--", prompt>>

StreamingCommand(prompt, session_id, resume, model) ==
    <<Executable, "--verbose", "--output-format", "stream-json">>
        \o ModelSelector(model) \o SessionSelector(resume, session_id)
        \o <<"--", prompt>>

CIdle ==
    [pc |-> "idle", mode |-> "none", prompt |-> "hello", session_id |-> "None",
     resume |-> FALSE, model |-> "None", cmd |-> << >>]

\* invoke_claude builds cmd
BuildBatchCommand ==
    /\ cm.pc = "call"
    /\ cm' = [cm EXCEPT !.pc = "built", !.mode = "batch",
                        !.cmd = BatchCommand(cm.prompt, cm.session_id, cm.resume,
                                             cm.model)]
    /\ UNCHANGED <<sessions, nextUuid, regVars, hVars, b, st, pr, ledVars>>

\* invoke_claude_streaming builds cmd
BuildStreamingCommand ==
    /\ cm.pc = "call"
    /\ cm' = [cm EXCEPT !.pc = "built", !.mode = "streaming",
                        !.cmd = StreamingCommand(cm.prompt, cm.session_id, cm.resume,
                                                 cm.model)]
    /\ UNCHANGED <<sessions, nextUuid, regVars, hVars, b, st, pr, ledVars>>

(***************************************************************************)
(* The job ledger as a table (job_tracker.py).  lg.rows is the jobs table, *)
(* a job id the index of its row.  Every call opens its own connection; a  *)
(* statement is atomic and a write becomes visible to the other            *)
(* connections at its commit.  lg.lock is the connection that holds the    *)
(* database's write lock (0: none); a writer that finds it taken waits.    *)
(* add_progress_event is a SELECT, an UPDATE and a commit, each behind an  *)
(* await; lg.t[k] is the call task k is in.                                *)
(* Ghosts: written[j] the lists committed as job j's progress, done[j] the *)
(* events of the appends to j that returned, in that order, overlap[j]     *)
(* whether two appends to j were ever in progress together, last the       *)
(* arguments of the last update_job, touched the ids update_job was called *)
(* with, got the result of the last read                                   *)
(* (get_progress or get_job).                                              *)
(***************************************************************************)
MaxJobs == 2
MaxLedgerOps == 2

LTasks == {1, 2}

\* the ids a caller passes: those of the rows, and one that has no row
LedgerIds == 1..(MaxJobs + 1)

\* SQL NULL, and Python None for an optional argument of update_job
SqlNull == <<"NULL">>
PyNone == <<"None">>

\* the optional arguments of update_job, lines 138-145
OptFields ==
    {"started_at", "completed_at", "result", "error", "input_tokens",
     "output_tokens", "total_cost_usd", "duration_seconds"}

DateFields == {"started_at", "completed_at"}

\* the sets of optional arguments the callers supply, with the status:
\* the start of a turn, its completion, its failure, a bare status
UpdateCalls ==
    {[status |-> "running", given |-> {"started_at"}],
     [status |-> "completed",
      given |-> {"completed_at", "result", "input_tokens", "output_tokens",
                 "total_cost_usd", "duration_seconds"}],
     [status |-> "failed", given |-> {"completed_at", "error"}],
     [status |-> "pending", given |-> {}]}

\* the arguments of the n-th call: a value of its own for what is supplied
UpdateArgs(given, n) ==
    [f \in OptFields |-> IF f \in given THEN <<"v", n>> ELSE PyNone]

\* datetime.isoformat() for the two dates, the value itself otherwise
Stored(f, v) == IF f \in DateFields THEN <<"iso", v[2]>> ELSE v

\* json.dumps / json.loads of the progress column; NULL or '' reads as []
Dumps(list) == <<"json", list>>
Loads(col) == IF col = SqlNull \/ col = << >> THEN << >> ELSE col[2]

\* the arguments of the n-th create_job: a thread, a channel and a message
\* of its own; the session id is optional and left out by the first call
CreateArgs(n) ==
    [thread_ts |-> n, channel |-> <<"C", n>>, message |-> <<"m", n>>,
     session_id |-> IF n = 1 THEN PyNone ELSE <<"S", n>>]

\* create_job, lines 119-129 (the id is a fresh uuid4, None is bound as
\* NULL), with the column defaults of lines 54-72
NewRow(id, args) ==
    [id |-> id, thread_ts |-> args.thread_ts, channel |-> args.channel,
     message |-> args.message, status |-> "pending",
     session_id |-> IF args.session_id = PyNone THEN SqlNull ELSE args.session_id,
     started_at |-> SqlNull, completed_at |-> SqlNull, result |-> SqlNull,
     error |-> SqlNull, input_tokens |-> <<"v", 0>>, output_tokens |-> <<"v", 0>>,
     total_cost_usd |-> <<"v", 0>>, duration_seconds |-> <<"v", 0>>,
     progress |-> Dumps(<< >>)]

\* mutant of UpdateRow: a column whose argument is None is set to NULL
UpdateRowAll(row, status, args) ==
    [f \in DOMAIN row |->
        IF f = "status" THEN status
        ELSE IF f \in OptFields
             THEN (IF args[f] # PyNone THEN Stored(f, args[f]) ELSE SqlNull)
             ELSE row[f]]

\* update_job, lines 164-206: "status = ?" and one "col = ?" for every
\* argument that is not None
UpdateRow(row, status, args) ==
    [f \in DOMAIN row |->
        IF f = "status" THEN status
        ELSE IF f \in OptFields /\ args[f] # PyNone THEN Stored(f, args[f])
        ELSE row[f]]

\* mutant of AppendEvent: the event is put in front
PrependEvent(list, ev) == <<ev>> \o list

\* progress_list.append(event), line 336
AppendEvent(list, ev) == Append(list, ev)

HasRow(l, j) == j \in 1..Len(l.rows)

\* no job (get_job returns None)
NoJob == << >>

\* mutant of GetJob: the newest row, whatever the id
GetJobNewest(l, j) ==
    IF l.rows # << >> THEN <<l.rows[Len(l.rows)]>> ELSE NoJob

\* get_job, lines 221-228: dict(row) of the row with the id (NULL reads as
\* None), None when there is no such row
GetJob(l, j) ==
    IF HasRow(l, j)
    THEN <<[f \in DOMAIN l.rows[j] |->
              IF f \in {"id", "thread_ts", "status"} THEN l.rows[j][f]
              ELSE IF l.rows[j][f] = SqlNull THEN PyNone ELSE l.rows[j][f]]>>
    ELSE NoJob

\* mutant of ReadProgress: the list an UPDATE not yet committed has written
ReadProgressDirty(l, j) ==
    IF \E k \in LTasks : l.t[k].pc = "commit" /\ l.t[k].job = j
    THEN (LET k == CHOOSE k \in LTasks : l.t[k].pc = "commit" /\ l.t[k].job = j
          IN  l.t[k].list)
    ELSE IF HasRow(l, j) THEN Loads(l.rows[j].progress) ELSE << >>

\* get_progress, lines 356-365: the committed column of the row, [] when
\* there is no row
ReadProgress(l, j) == IF HasRow(l, j) THEN Loads(l.rows[j].progress) ELSE << >>

LTaskIdle == [pc |-> "idle", job |-> 0, ev |-> 0, list |-> << >>]

NoUpdate == [job |-> 0, status |-> "none", args |-> UpdateArgs({}, 0)]

LgIdle ==
    [rows |-> << >>, t |-> [k \in LTasks |-> LTaskIdle], lock |-> 0, nops |-> 0,
     written |-> << >>, done |-> << >>, overlap |-> [i \in LedgerIds |-> FALSE],
     last |-> NoUpdate, touched |-> {},
     got |-> [kind |-> "none", job |-> 0, value |-> << >>, n |-> 0]]

\* create_job, for a new thread and its session
LedgerCreateJob ==
    /\ Len(lg.rows) < MaxJobs
    /\ lg.lock = 0
    /\ lg' = [lg EXCEPT !.rows = Append(@, NewRow(Len(@) + 1, CreateArgs(Len(@) + 1))),
                        !.written = Append(@, {<< >>}),
                        !.done = Append(@, << >>)]
    /\ UNCHANGED <<sessions, nextUuid, regVars, hVars, invVars, pr, cm, sc>>

\* update_job: one UPDATE and its commit
LedgerUpdateJob(j, call) ==
    /\ lg.nops < MaxLedgerOps
    /\ lg.lock = 0
    /\ LET args == UpdateArgs(call.given, lg.nops + 1) IN
       lg' = [lg EXCEPT !.nops = @ + 1,
                        !.rows = IF HasRow(lg, j)
                                 THEN [@ EXCEPT ![j] = UpdateRow(@, call.status, args)]
                                 ELSE @,
                        !.last = [job |-> j, status |-> call.status, args |-> args],
                        !.touched = @ \cup {j}]
    /\ UNCHANGED <<sessions, nextUuid, regVars, hVars, invVars, pr, cm, sc>>

\* add_progress_event is called: the event is built, the connection opened
LedgerAppendBegins(k, j) ==
    /\ lg.nops < MaxLedgerOps
    /\ lg.t[k].pc = "idle"
    /\ lg' = [lg EXCEPT !.nops = @ + 1,
                        !.t[k] = [pc |-> "select", job |-> j, ev |-> lg.nops + 1,
                                  list |-> << >>],
                        !.overlap = [i \in DOMAIN @ |->
                                        @[i] \/ (i = j /\ \E o \in LTasks \ {k} :
                                                   lg.t[o].pc # "idle" /\ lg.t[o].job = j)]]
    /\ UNCHANGED <<sessions, nextUuid, regVars, hVars, invVars, pr, cm, sc>>

\* lines 326-336: the SELECT; with no row the call returns
LedgerAppendSelects(k) ==
    /\ lg.t[k].pc = "select"
    /\ lg' = IF HasRow(lg, lg.t[k].job)
             THEN [lg EXCEPT !.t[k].pc = "update",
                             !.t[k].list = AppendEvent(Loads(lg.rows[lg.t[k].job].progress),
                                                       lg.t[k].ev)]
             ELSE [lg EXCEPT !.t[k] = LTaskIdle]
    /\ UNCHANGED <<sessions, nextUuid, regVars, hVars, invVars, pr, cm, sc>>

\* lines 337-340: the UPDATE takes the write lock
LedgerAppendUpdates(k) ==
    /\ lg.t[k].pc = "update"
    /\ lg.lock = 0
    /\ lg' = [lg EXCEPT !.t[k].pc = "commit", !.lock = k]
    /\ UNCHANGED <<sessions, nextUuid, regVars, hVars, invVars, pr, cm, sc>>

\* line 341: the commit; the call returns
LedgerAppendCommits(k) ==
    /\ lg.t[k].pc = "commit"
    /\ LET j == lg.t[k].job IN
       lg' = [lg EXCEPT !.rows[j].progress = Dumps(lg.t[k].list),
                        !.lock = 0,
                        !.written[j] = @ \cup {lg.t[k].list},
                        !.done[j] = Append(@, lg.t[k].ev),
                        !.t[k] = LTaskIdle]
    /\ UNCHANGED <<sessions, nextUuid, regVars, hVars, invVars, pr, cm, sc>>

\* get_progress
LedgerGetProgress(j) ==
    /\ lg' = [lg EXCEPT !.got = [kind |-> "progress", job |-> j,
                                 value |-> ReadProgress(lg, j), n |-> 1]]
    /\ UNCHANGED <<sessions, nextUuid, regVars, hVars, invVars, pr, cm, sc>>

\* get_job
LedgerGetJob(j) ==
    /\ lg.nops < MaxLedgerOps
    /\ lg' = [lg EXCEPT !.nops = @ + 1,
                        !.got = [kind |-> "job", job |-> j,
                                 value |-> GetJob(lg, j), n |-> 1]]
    /\ UNCHANGED <<sessions, nextUuid, regVars, hVars, invVars, pr, cm, sc>>

(***************************************************************************)
(* The commit scan (job_tracker.py scan_new_commits, called by the         *)
(* handlers when a turn completed).  The clock counts seconds, the         *)
(* resolution of the `--since` string.  sc.log is the history of the       *)
(* workspace in commit order; each commit has its time and the kind of     *)
(* line `git log` prints for it:                                           *)
(*   "good"   hash|author|email|time|subject                               *)
(*   "short"  fewer than five fields                                       *)
(*   "badts"  the fourth field is not an integer (the author's name holds  *)
(*            a "|", so the fields are shifted by one)                     *)
(***************************************************************************)
MaxScanClock == 2
MaxCommits == 2

ScanJob == "J"

CommitKinds == {"good", "short", "badts"}

\* subprocess.run: git ran, exited non-zero (not a repository, bad
\* revision), ran over the 10 s timeout, or could not be started
GitOutcomes == {"ok", "nonzero", "TimeoutExpired", "FileNotFoundError"}

\* `git log --since <since>`: the commits at or after since, newest first,
\* as indexes into the history
RECURSIVE GitLog(_, _, _)
GitLog(log, since, i) ==
    IF i = 0 THEN << >>
    ELSE IF log[i].at >= since THEN <<i>> \o GitLog(log, since, i - 1)
    ELSE GitLog(log, since, i - 1)

NoScan == [commits |-> << >>, recorded |-> << >>, exc |-> "none"]

\* record_commit: one row of the commits table, or its exception
RecordCommit(acc, job, c, fails) ==
    IF fails THEN [acc EXCEPT !.exc = "OperationalError"]
    ELSE [acc EXCEPT !.recorded = Append(@, [job_id |-> job, commit |-> c]),
                     !.commits = Append(@, c)]

\* lines 535-556: the loop over the lines of stdout; failAt is the number
\* of the record_commit call that fails (0: none does)
RECURSIVE ScanLoop(_, _, _, _, _)
ScanLoop(log, lines, job, failAt, acc) ==
    IF lines = << >> \/ acc.exc # "none" THEN acc
    ELSE LET c == Head(lines)
             kind == log[c].kind
         IN  ScanLoop(log, Tail(lines), job, failAt,
                 CASE kind = "short" -> acc
                   [] kind = "badts" -> [acc EXCEPT !.exc = "ValueError"]
                   [] OTHER -> RecordCommit(acc, job, c,
                                            Len(acc.recorded) + 1 = failAt))

\* `except Exception` of line 562
ScanCatches(exc) ==
    exc \in {"TimeoutExpired", "FileNotFoundError", "ValueError", "OperationalError"}

\* the value scan_new_commits returns, or the exception that leaves it
ScanReturn(acc) ==
    IF acc.exc = "none" THEN [ret |-> acc.commits, raised |-> FALSE]
    ELSE IF ScanCatches(acc.exc) THEN [ret |-> << >>, raised |-> FALSE]
    ELSE [ret |-> << >>, raised |-> TRUE]

\* scan_new_commits(workspace, job_id, since_timestamp)
ScanNewCommits(log, job, since, git, failAt) ==
    CASE git = "nonzero" -> NoScan
      [] git \in {"TimeoutExpired", "FileNotFoundError"} -> [NoScan EXCEPT !.exc = git]
      [] OTHER -> ScanLoop(log, GitLog(log, since, Len(log)), job, failAt, NoScan)

ScIdle ==
    [pc |-> "idle", now |-> 0, started |-> 0, since |-> 0, log |-> << >>,
     git |-> "ok", failAt |-> 0, table |-> << >>, ret |-> << >>, exc |-> "none",
     raised |-> FALSE]

\* the clock moves by a second
ScanClockTick ==
    /\ sc.pc \in {"idle", "running"}
    /\ sc.now < MaxScanClock
    /\ sc' = [sc EXCEPT !.now = @ + 1]
    /\ UNCHANGED <<sessions, nextUuid, regVars, hVars, invVars, pr, cm, lg>>

\* a commit is made in the workspace, by the agent during the turn or by
\* anyone before it
WorkspaceCommit(kind) ==
    /\ sc.pc \in {"idle", "running"}
    /\ Len(sc.log) < MaxCommits
    /\ sc' = [sc EXCEPT !.log = Append(@, [at |-> sc.now, kind |-> kind])]
    /\ UNCHANGED <<sessions, nextUuid, regVars, hVars, invVars, pr, cm, lg>>

\* slack_handler.py 80-84: the turn starts, started_at = utcnow()
ScanTurnStarts ==
    /\ sc.pc = "idle"
    /\ sc' = [sc EXCEPT !.pc = "running", !.started = sc.now]
    /\ UNCHANGED <<sessions, nextUuid, regVars, hVars, invVars, pr, cm, lg>>

\* slack_handler.py 209-217: the turn completed, the handler calls
\* scan_new_commits(workspace, job_id, datetime.utcnow())
ScanAfterCompletion(git, failAt) ==
    /\ sc.pc = "running"
    /\ LET acc == ScanNewCommits(sc.log, ScanJob, sc.now, git, failAt)
           out == ScanReturn(acc)
       IN  sc' = [sc EXCEPT !.pc = "scanned", !.since = sc.now, !.git = git,
                            !.failAt = failAt, !.table = acc.recorded,
                            !.ret = out.ret, !.exc = acc.exc,
                            !.raised = out.raised]
    /\ UNCHANGED <<sessions, nextUuid, regVars, hVars, invVars, pr, cm, lg>>

RegInit ==
    /\ sessions = << >>
    /\ nextUuid = 1
    /\ calls = 0
    /\ dirs = {}
    /\ rc = [c \in RClients |-> RIdle]
    /\ obs = NoObs
    /\ absmap = [t \in Threads |-> NoneId]
    /\ everAssoc = [t \in Threads |-> {}]

InvInit ==
    /\ b = BIdle
    /\ st = SIdle
    /\ pr = PIdle
    /\ cm = CIdle
    /\ sc = ScIdle /\ lg = LgIdle

Init == RegInit /\ HInit /\ InvInit

ParseInit ==
    /\ RegInit /\ HInit /\ b = BIdle /\ st = SIdle /\ cm = CIdle /\ sc = ScIdle /\ lg = LgIdle
    /\ pr \in {[PIdle EXCEPT !.pc = "call", !.input = d] : d \in ParseInputs}

ParseNext == ParseCall

SpecParse == ParseInit /\ [][ParseNext]_vars

ArgsInit ==
    /\ RegInit /\ HInit /\ b = BIdle /\ st = SIdle /\ pr = PIdle /\ sc = ScIdle /\ lg = LgIdle
    /\ cm \in {[CIdle EXCEPT !.pc = "call", !.prompt = p, !.session_id = sid,
                              !.resume = r, !.model = m] :
                 p \in PromptArgs, sid \in SessionIdArgs, r \in BOOLEAN,
                 m \in ModelArgs}

ArgsNext == BuildBatchCommand \/ BuildStreamingCommand

SpecArgs == ArgsInit /\ [][ArgsNext]_vars

LedgerNext ==
    \/ LedgerCreateJob
    \/ \E j \in LedgerIds, call \in UpdateCalls : LedgerUpdateJob(j, call)
    \/ \E k \in LTasks, j \in LedgerIds : LedgerAppendBegins(k, j)
    \/ \E k \in LTasks : LedgerAppendSelects(k)
    \/ \E k \in LTasks : LedgerAppendUpdates(k)
    \/ \E k \in LTasks : LedgerAppendCommits(k)
    \/ \E j \in LedgerIds : LedgerGetProgress(j)
    \/ \E j \in LedgerIds : LedgerGetJob(j)

SpecLedger == Init /\ [][LedgerNext]_vars

ScanNext ==
    \/ ScanClockTick
    \/ \E kind \in CommitKinds : WorkspaceCommit(kind)
    \/ ScanTurnStarts
    \/ \E git \in GitOutcomes, failAt \in 0..MaxCommits : ScanAfterCompletion(git, failAt)

SpecScan == Init /\ [][ScanNext]_vars

RegNext ==
    \/ \E c \in RClients, t \in Threads : CreateSessionBegin(c, t)
    \/ \E c \in RClients : CreateSessionWrite(c)
    \/ \E t \in Threads : GetSession(t)
    \/ \E t \in Threads : HasSession(t)
    \/ \E t \in Threads, id \in {EmptyId, ExtId} : SetSession(t, id)
    \/ \E t \in Threads : RemoveSession(t)
    \/ ListSessions
    \/ \E c \in RClients, t \in Threads : AbortLookup(c, t)
    \/ \E c \in RClients : AbortFs(c)
    \/ \E c \in RClients : AbortRemove(c)
    \/ \E id \in Uuids \cup {ExtId} : SessionDirAppears(id)

SpecRegistry == Init /\ [][RegNext]_vars

SpecHandlers == Init /\ [][HNext]_vars

SpecBatch == Init /\ [][BatchNext]_vars

SpecStream == Init /\ [][StreamNext]_vars

(***************************************************************************)
(* C1: when events of one thread that has no session yet are handled       *)
(* concurrently, with a task switch possible at every await of             *)
(* get_session / create_session, exactly one session id is ever created    *)
(* for the thread and the concurrent invocations all use that id.          *)
(***************************************************************************)
SessionResolved ==
    {"get_job", "reopen", "create_job", "set_running", "post_initial", "invoke",
     "append", "complete_empty", "complete_tokens", "complete_set", "fail"}

AllowedTransitions ==
    {<<"pending", "running">>, <<"running", "completed">>, <<"running", "failed">>,
     <<"completed", "running">>, <<"failed", "running">>}

C2_StatusTransitions ==
    [][\A j \in 1..Len(jobs) :
          jobs'[j].status # jobs[j].status =>
              <<jobs[j].status, jobs'[j].status>> \in AllowedTransitions]_vars

(***************************************************************************)
(* C3: when a turn on a reused job ends completed, the job's result has    *)
(* the result it held when the turn began as a prefix, whatever the agent  *)
(* answered (an empty answer included).                                    *)
(***************************************************************************)
C3_ResultIsAppended ==
    [][\A k \in HTasks :
          /\ h[k].pc \in {"complete_empty", "complete_tokens", "complete_set"}
          /\ h'[k].pc = "idle"
          /\ h[k].existing
          => IsPrefix(TextOf(h[k].before), TextOf(jobs'[h[k].job].result))]_vars

(***************************************************************************)
(* C4: the registry is a last-writer-wins map.  create returns an id never *)
(* associated with the thread before and the thread then maps to it; get   *)
(* returns the id of the latest create/set of the thread, or None when     *)
(* there was none or a remove / successful abort came after it; remove     *)
(* returns True exactly when a mapping existed, leaves the thread unmapped *)
(* and leaves every other thread's mapping as it was.                      *)
(***************************************************************************)
C4_LastWriterWins ==
    /\ \A t \in Threads : SessGet(sessions, t) = absmap[t]
    /\ obs.op = "create" =>
          /\ ~obs.wasAssoc
          /\ SessGet(sessions, obs.thread) = obs.retId
          /\ obs.othersKept
    /\ obs.op = "get" => obs.retId = obs.expId
    /\ obs.op = "remove" =>
          /\ obs.retBool = (obs.expId # NoneId)
          /\ ~SessHas(sessions, obs.thread)
          /\ obs.othersKept

\* a get that returns the id of the second create of its thread
C4_Witness ==
    /\ obs.op = "get"
    /\ obs.retId = 2
    /\ 1 \in everAssoc[obs.thread]

(***************************************************************************)
(* C5: abort_session never raises; it returns False without changing the   *)
(* registry when the thread has no session, when the session directory     *)
(* does not exist and when the deletion fails; it returns True only when   *)
(* the directory was deleted, and the thread is then unmapped.             *)
(***************************************************************************)
C5_AbortReportsFailure ==
    obs.op = "abort" =>
        /\ ~obs.raised
        /\ obs.fs \in {"nosession", "missing", "rmtree_error", "exists_error"} =>
              ~obs.retBool /\ ~obs.wrote
        /\ obs.retBool => obs.fs = "deleted" /\ ~SessHas(sessions, obs.thread)

\* an abort that deleted the directory and removed the mapping
C5_Witness ==
    obs.op = "abort" /\ obs.retBool /\ obs.wrote /\ obs.fs = "deleted"

(***************************************************************************)
(* C6: in batch mode, when waiting for the subprocess exceeds the          *)
(* configured timeout, kill is invoked on the subprocess exactly once and  *)
(* the subprocess is then waited on; the invocation fails with the 'timed  *)
(* out' error, never with the non-zero-exit error or a parsed result.  An  *)
(* invocation that is over after more than the timeout has elapsed ended   *)
(* this way.                                                               *)
(***************************************************************************)
C6_BatchTimeout ==
    /\ (b.expired /\ b.pc # "cancel_wait") => b.kills = 1
    /\ b.waited => b.kills = 1 /\ b.proc = "exited"
    /\ (b.pc = "done" /\ b.expired) => b.waited /\ b.outcome = "timeout"
    /\ (b.pc = "done" /\ Armed(b.actual) /\ b.elapsed > b.actual) =>
          b.expired /\ b.outcome = "timeout"
    /\ b.outcome \in {"result", "exit_error"} => ~b.expired /\ b.kills = 0

\* a timed-out invocation whose subprocess died of the kill
C6_Witness ==
    /\ b.pc = "done"
    /\ b.expired
    /\ b.outcome = "timeout"
    /\ b.code = -9
    /\ b.elapsed > b.actual

(***************************************************************************)
(* C8, as claimed: an invocation made with timeout 0, or with no timeout   *)
(* supplied, never ends with the timeout error.                            *)
(***************************************************************************)
C8_ZeroOrUnsetNeverTimesOut ==
    (b.proc # "none" /\ b.arg \in {<< >>, <<0>>}) => b.outcome # "timeout"

(***************************************************************************)
(* C8, amended: an invocation made with timeout 0 never ends with the      *)
(* timeout error and its subprocess is never killed for time, however long *)
(* it runs; an invocation made with no timeout supplied runs under the     *)
(* default timeout of DEFAULT_TIMEOUT_SECONDS.                             *)
(***************************************************************************)
C8_ZeroNeverTimesOut ==
    /\ (b.proc # "none" /\ b.arg = <<0>>) =>
          ~b.expired /\ b.kills = 0 /\ b.outcome # "timeout"
    /\ (b.proc # "none" /\ b.arg = << >>) =>
          b.actual = DEFAULT_TIMEOUT_SECONDS /\ Armed(b.actual)

\* timeout 0, the subprocess ran for longer than the default timeout
C8_Witness ==
    /\ b.arg = <<0>>
    /\ b.pc = "done"
    /\ b.elapsed > DEFAULT_TIMEOUT_SECONDS
    /\ b.outcome = "result"

(***************************************************************************)
(* C7: in streaming mode with a timeout T > 0, an invocation whose         *)
(* subprocess is still running when T has passed is killed (once) and      *)
(* waited on and the call ends with the timeout error, also when stdout    *)
(* closed before T while stderr is open or the process has not exited.     *)
(***************************************************************************)
C7_StreamingTimeout ==
    (st.pc = "done" /\ Armed(st.actual) /\ st.overran) =>
        (st.outcome = "timeout" /\ st.kills = 1 /\ st.waited)

(***************************************************************************)
(* C9: in streaming mode, once an event of type error has been read from   *)
(* stdout no later line is processed, no result is returned, and the       *)
(* invocation ends with the agent-reported error and the subprocess dead.  *)
(***************************************************************************)
C9_ErrorEventFails ==
    st.errorSeen =>
        /\ ~st.afterError
        /\ st.outcome # "result"
        /\ st.pc = "done" => (st.outcome = "agent_error" /\ st.proc = "exited")

(***************************************************************************)
(* C10: in streaming mode no line of stdout, whatever its bytes, ends the  *)
(* stdout reader: the reader never stops on an exception, and when the     *)
(* invocation returns a result every line the subprocess wrote has been    *)
(* read.                                                                   *)
(***************************************************************************)
C10_MalformedLineNeverAborts ==
    /\ st.rd # "raised"
    /\ st.outcome = "result" => st.buf = << >>
    /\ st.outcome = "stream_failed" => st.exc = "CallbackError"

(***************************************************************************)
(* C11: a streaming invocation that ends cleanly (exit code 0) after a     *)
(* result event was read from stdout returns a response with the result    *)
(* text, the session id, the token counts and the cost of the last result  *)
(* event read.                                                             *)
(***************************************************************************)
C11_ResultEventReturned ==
    (st.pc = "done" /\ st.outcome = "result" /\ st.lastResult > 0) =>
        LET ev == ResultEvent(st.lastResult)
        IN  StreamResponse(st) =
                [result |-> ev.result, session_id |-> ev.session_id,
                 is_error |-> FALSE, input_tokens |-> ev.input_tokens,
                 output_tokens |-> ev.output_tokens,
                 total_cost |-> ev.total_cost_usd]

(***************************************************************************)
(* C12: _parse_response never raises: whatever stdout holds (text that is  *)
(* not JSON, a JSON scalar, an object, an array with elements and nested   *)
(* fields of any type) the call returns a response.                        *)
(***************************************************************************)
C12_ParseNeverRaises == pr.pc = "done" => pr.out.exc = "none"

(***************************************************************************)
(* C13: whenever invoke_claude_streaming raises after the subprocess was   *)
(* started (timeout, non-zero exit, a failure reading the streams or in a  *)
(* callback), the subprocess is not running when the error propagates: it  *)
(* has exited, and when it was killed it was also waited on.               *)
(***************************************************************************)
RaisedWithProcess == {"timeout", "exit_error", "stream_failed", "agent_error"}

C13_NoProcessLeftRunning ==
    (st.pc = "done" /\ st.outcome \in RaisedWithProcess) =>
        /\ st.proc = "exited"
        /\ st.kills > 0 => st.waited

\* a reader failed while the process was running: killed, waited, raised
C13_Witness ==
    /\ st.pc = "done"
    /\ st.outcome = "stream_failed"
    /\ st.kills = 1
    /\ st.waited
    /\ st.proc = "exited"

(***************************************************************************)
(* C14: when the streaming subprocess exits with a non-zero code, the      *)
(* error message names the exit code and carries the text the subprocess   *)
(* wrote to stderr during the run; it reads 'Unknown error' only when      *)
(* nothing was written to stderr.                                          *)
(***************************************************************************)
C14_ExitErrorCarriesStderr ==
    (st.pc = "done" /\ st.outcome = "exit_error") =>
        /\ st.msg.code = st.code
        /\ st.msg.text = IF st.errEmitted > 0 THEN StderrText(st.errEmitted)
                                               ELSE UnknownError

(***************************************************************************)
(* C15: in batch mode an exit code other than 0 fails the call with a      *)
(* message that names the exit code and carries stderr with the            *)
(* surrounding whitespace stripped; with an empty stderr the message reads *)
(* 'Unknown error'; stdout is not parsed.                                  *)
(***************************************************************************)
IsStrippedOf(text, raw) ==
    /\ text = << >> \/ (Head(text) \notin Whitespace /\ text[Len(text)] \notin Whitespace)
    /\ \E i \in 0..Len(raw) :
          /\ i + Len(text) <= Len(raw)
          /\ SubSeq(raw, i + 1, i + Len(text)) = text
          /\ \A j \in (1..i) \cup ((i + Len(text) + 1)..Len(raw)) : raw[j] \in Whitespace

C15_BatchExitError ==
    (b.pc = "done" /\ b.proc = "exited" /\ b.code # 0 /\ b.outcome # "timeout") =>
        /\ b.outcome = "exit_error"
        /\ b.msg.code = b.code
        /\ b.stderr = << >> => b.msg.text = BatchUnknownError
        /\ b.stderr # << >> => IsStrippedOf(b.msg.text, b.stderr)
        /\ ~b.parsed

\* exit code 1 with text and surrounding whitespace on stderr
C15_Witness ==
    /\ b.pc = "done"
    /\ b.outcome = "exit_error"
    /\ b.code = 1
    /\ b.stderr = <<" ", "e", " ">>
    /\ b.msg.text = <<"e">>

(***************************************************************************)
(* C16: for every combination of resume flag and session id, in batch and  *)
(* in streaming mode, the options of the argument list hold `--resume sid` *)
(* exactly when resume is true and a session id is supplied, and           *)
(* `--session-id sid` exactly when resume is false and a session id is     *)
(* supplied; they hold neither selector without a session id, and never    *)
(* both.                                                                   *)
(***************************************************************************)
\* the options: what precedes the "--" that introduces the prompt
OptionsEnd(cmd) == CHOOSE i \in 1..Len(cmd) : cmd[i] = "--" /\ \A j \in 1..(i - 1) : cmd[j] # "--"

HasFlag(cmd, flag) == \E i \in 1..(OptionsEnd(cmd) - 1) : cmd[i] = flag

HasOption(cmd, flag, value) ==
    \E i \in 1..(OptionsEnd(cmd) - 2) : cmd[i] = flag /\ cmd[i + 1] = value

C16_SessionSelector ==
    cm.pc = "built" =>
        LET supplied == cm.session_id \notin {"None", ""}
        IN  /\ HasOption(cm.cmd, "--resume", cm.session_id) <=> (cm.resume /\ supplied)
            /\ HasOption(cm.cmd, "--session-id", cm.session_id) <=> (~cm.resume /\ supplied)
            /\ HasFlag(cm.cmd, "--resume") <=> (cm.resume /\ supplied)
            /\ HasFlag(cm.cmd, "--session-id") <=> (~cm.resume /\ supplied)
            /\ ~(HasFlag(cm.cmd, "--resume") /\ HasFlag(cm.cmd, "--session-id"))

\* resume with a session id, in streaming mode
C16_Witness ==
    /\ cm.pc = "built"
    /\ cm.mode = "streaming"
    /\ cm.resume
    /\ cm.session_id = "S"
    /\ HasOption(cm.cmd, "--resume", "S")

(***************************************************************************)
(* C17: no handler execution ends, normally or by an exception, leaving    *)
(* its job in status running (an invoker call that fails sets the job to   *)
(* failed with the error detail): when no handler is executing, no job of  *)
(* the ledger is running.                                                  *)
(***************************************************************************)
C17_NoJobLeftRunning ==
    (\A k \in HTasks : h[k].pc = "idle") =>
        \A j \in 1..Len(jobs) : jobs[j].status # "running"

(***************************************************************************)
(* C18: a reply on a thread that has a session and a job, whatever the     *)
(* job's status, creates no job: no step of its handler changes the number *)
(* of jobs, the handler never reaches create_job, and the job it sets      *)
(* running (when the ledger takes the write) is the most recent job of the *)
(* thread it found.                                                        *)
(***************************************************************************)
IsMostRecent(js, t, j) ==
    /\ j \in 1..Len(js)
    /\ js[j].thread = t
    /\ \A i \in (j + 1)..Len(js) : js[i].thread # t

ReplyOnJob(k) == h[k].kind = "reply" /\ h[k].hadJob

C19_InvokerSession ==
    \A k \in HTasks :
        h[k].pc = "invoke" =>
            /\ (h[k].kind = "mention" /\ ~Truthy(h[k].hadSid)) =>
                    /\ Truthy(h[k].newSid)
                    /\ h[k].newSid \in createdFor[h[k].thread]
                    /\ h[k].call = [session_id |-> h[k].newSid, resume |-> FALSE]
            /\ h[k].kind = "reply" =>
                    /\ Truthy(h[k].hadSid)
                    /\ h[k].call = [session_id |-> h[k].hadSid, resume |-> TRUE]

\* a mention and a reply, both in the invoker call
C19_Witness ==
    \E k, o \in HTasks :
        /\ h[k].pc = "invoke" /\ h[k].kind = "mention" /\ ~Truthy(h[k].hadSid)
        /\ h[o].pc = "invoke" /\ h[o].kind = "reply" /\ h[o].call.resume

(***************************************************************************)
(* C20: a failing ledger write (create_job, update_job,                    *)
(* add_progress_event, append_to_result) does not keep the agent from      *)
(* being invoked nor its answer or failure notice from being posted: when  *)
(* the exception of a ledger write leaves a handler, the invoker was       *)
(* called and something was delivered to the thread.                       *)
(***************************************************************************)
C20_LedgerFailureStillDelivers ==
    \A k \in HTasks :
        h[k].pc = "ledger_raised" => (h[k].call # NoCall /\ h[k].delivered)

(***************************************************************************)
(* C21: the commit scan that follows a completed turn is issued with a     *)
(* since_timestamp no later than the start of the turn, so that (git       *)
(* answering, every line well formed, every insert succeeding) each commit *)
(* made between the start and the completion of the turn is recorded with  *)
(* the job's id.                                                           *)
(***************************************************************************)
ScanUndisturbed ==
    /\ sc.git = "ok"
    /\ sc.failAt = 0
    /\ \A i \in 1..Len(sc.log) : sc.log[i].kind = "good"

C21_ScanCoversTheTurn ==
    sc.pc = "scanned" =>
        /\ sc.since <= sc.started
        /\ ScanUndisturbed =>
               \A i \in 1..Len(sc.log) :
                   sc.log[i].at >= sc.started =>
                       \E r \in 1..Len(sc.table) :
                           sc.table[r] = [job_id |-> ScanJob, commit |-> i]

(***************************************************************************)
(* C22: when the last invocation for a thread ended in a timeout (the      *)
(* session's directory was removed), the next invocation for the thread is *)
(* not issued as a resume of the timed-out session id.                     *)
(***************************************************************************)
C22_CleanSessionAfterTimeout ==
    [][\A k \in HTasks :
          (h[k].pc # "invoke" /\ h'[k].pc = "invoke"
              /\ lastTimeout[h'[k].thread] # NoneId) =>
             ~(h'[k].call.resume
                 /\ h'[k].call.session_id = lastTimeout[h'[k].thread])]_vars

(***************************************************************************)
(* C23: within one streaming invocation the callbacks triggered by stdout  *)
(* events are delivered in the order in which the subprocess emitted the   *)
(* lines, whatever the stderr reader does in between: the callback of a    *)
(* step of read_stream is for the line whose number in the order of        *)
(* emission is the reader's line counter, and that counter only grows.     *)
(***************************************************************************)
C23_StdoutCallbacksInOrder ==
    [][/\ (st.rd = "reading" /\ st'.rd = "callback") =>
              /\ st.buf # << >>
              /\ st'.line_count = st.line_count + 1
              /\ \E i \in 1..Len(st.buf) :
                    /\ st.buf[i].n = st'.line_count
                    /\ st'.buf = SubSeq(st.buf, 1, i - 1) \o SubSeq(st.buf, i + 1, Len(st.buf))
       /\ st.pc # "idle" => st'.line_count >= st.line_count]_vars

\* the callback of the second stdout event is awaited (the first was the
\* tool_use event's) while a callback of the stderr reader is in flight
C23_Witness ==
    /\ st.cb /\ st.rd = "callback" /\ st.er = "callback"
    /\ st.line_count = 2
    /\ st.progress.tool = "Bash" /\ st.progress.status = "completed"

\* read_stream takes the line at the head of the pipe, of the given type
ReadsEvent(kind) ==
    /\ st.rd = "reading" /\ st.buf # << >>
    /\ st'.line_count = st.line_count + 1
    /\ Head(st.buf).kind = kind

C25_ThinkingRateLimited ==
    [][ReadsEvent("thinking") =>
          /\ st'.progress = [st.progress EXCEPT !.thinking = TRUE, !.tool = "none"]
          /\ st'.rd \in {"reading", "callback"}
          /\ st'.rd = "callback" =>
                 st.elapsed - st.lastSent >= STREAMING_UPDATE_INTERVAL]_vars

(***************************************************************************)
(* C26: the final callback is issued only after both readers have ended,   *)
(* with no tool name, no tool status and the thinking flag off; a call     *)
(* with a callback that returns a response issued it exactly once, and a   *)
(* call that fails did not issue it.                                       *)
(***************************************************************************)
C26_FinalCallback ==
    /\ st.pc = "final_update" =>
           /\ st.rd \in {"done", "raised"} /\ st.er \in {"done", "raised"}
           /\ st.progress.tool = "none" /\ st.progress.status = "none"
           /\ st.progress.thinking = FALSE
    /\ (st.pc = "done" /\ st.outcome = "result" /\ st.cb) => st.finals = 1
    /\ (st.pc = "done" /\ st.outcome # "result") => st.finals = 0

(***************************************************************************)
(* C27: a get_progress that runs while add_progress_event calls are in     *)
(* progress returns a list that was committed as the job's progress by an  *)
(* append (or the empty list the job was created with), never the list of  *)
(* an append that has not committed.                                       *)
(***************************************************************************)
C27_NoTornRead ==
    (lg.got.kind = "progress" /\ HasRow(lg, lg.got.job)) =>
        lg.got.value \in lg.written[lg.got.job]

\* a read of a job returned a committed list of one event while another
\* append to the same job had written its UPDATE and not committed
C27_Witness ==
    /\ lg.got.kind = "progress" /\ HasRow(lg, lg.got.job)
    /\ Len(lg.got.value) = 1
    /\ \E k \in LTasks :
          /\ lg.t[k].pc = "commit" /\ lg.t[k].job = lg.got.job
          /\ lg.t[k].list # lg.got.value

\* an append to job j commits in this step
AppendCommits(j) ==
    \E k \in LTasks : lg.t[k].pc = "commit" /\ lg.t[k].job = j /\ lg'.t[k].pc = "idle"

(***************************************************************************)
(* C28: with one sequential caller per job, the progress of the job is     *)
(* the events of the add_progress_event calls that returned, in call       *)
(* order; and an append changes no other job's row and no other column of  *)
(* the job's row.                                                          *)
(***************************************************************************)
C28_AppendsInOrder ==
    /\ [](\A j \in 1..Len(lg.rows) :
             ~lg.overlap[j] => ReadProgress(lg, j) = lg.done[j])
    /\ [][\A j \in 1..Len(lg.rows) :
             AppendCommits(j) =>
                 /\ \A i \in 1..Len(lg.rows) : i # j => lg'.rows[i] = lg.rows[i]
                 /\ \A f \in DOMAIN lg.rows[j] :
                        f # "progress" => lg'.rows[j][f] = lg.rows[j][f]
                 /\ Len(lg'.rows) = Len(lg.rows)]_vars

\* two appends to a job returned, the other job has its own event, and
\* the job's other columns hold what an update_job wrote before
C28_Witness ==
    /\ Len(lg.rows) = 2
    /\ \E j \in 1..2 :
          /\ Len(lg.done[j]) = 2 /\ ~lg.overlap[j]
          /\ lg.done[j][1] < lg.done[j][2]

(***************************************************************************)
(* C29: update_job writes the status and exactly the optional fields that  *)
(* were supplied; every other column of the row, the progress included,    *)
(* keeps its value, and no other row changes.                              *)
(***************************************************************************)
C29_UpdateWritesSupplied ==
    [][lg'.last # lg.last =>
          LET j == lg'.last.job
              args == lg'.last.args
          IN  /\ Len(lg'.rows) = Len(lg.rows)
              /\ \A i \in 1..Len(lg.rows) : i # j => lg'.rows[i] = lg.rows[i]
              /\ HasRow(lg, j) =>
                    /\ lg'.rows[j].status = lg'.last.status
                    /\ \A f \in OptFields :
                           lg'.rows[j][f] =
                               IF args[f] = PyNone THEN lg.rows[j][f]
                               ELSE IF f \in DateFields THEN <<"iso", args[f][2]>>
                               ELSE args[f]
                    /\ \A f \in DOMAIN lg.rows[j] :
                           f \notin OptFields \cup {"status"} =>
                               lg'.rows[j][f] = lg.rows[j][f]]_vars

\* a failure was recorded on a job that had a start time: the start time
\* is kept, the result is still NULL, the other row is as it was created
C29_Witness ==
    /\ Len(lg.rows) = 2
    /\ \E j \in 1..2 :
          /\ lg.last.job = j /\ lg.last.status = "failed"
          /\ lg.rows[j].status = "failed"
          /\ lg.rows[j].started_at # SqlNull /\ lg.rows[j].error # SqlNull
          /\ lg.rows[j].error # <<"iso", lg.rows[j].started_at[2]>>
          /\ lg.rows[j].result = SqlNull
          /\ \A i \in 1..2 : i # j => lg.rows[i].status = "pending"

(***************************************************************************)
(* C30: scan_new_commits never raises.  When the workspace is not a        *)
(* repository, the history query fails or times out, or recording a commit *)
(* fails, it returns the empty list; otherwise it records every parsed     *)
(* commit with the given job id and returns exactly the commits it         *)
(* recorded.                                                               *)
(***************************************************************************)
ScanFailureCase ==
    \/ sc.git = "nonzero"
    \/ sc.exc \in {"TimeoutExpired", "FileNotFoundError", "OperationalError"}

C30_ScanNeverRaises ==
    sc.pc = "scanned" =>
        /\ ~sc.raised
        /\ ScanFailureCase => sc.ret = << >>
        /\ ~ScanFailureCase =>
               /\ sc.ret = [r \in 1..Len(sc.table) |-> sc.table[r].commit]
               /\ \A r \in 1..Len(sc.table) : sc.table[r].job_id = ScanJob
               /\ \A i \in 1..Len(sc.log) :
                      (sc.log[i].kind = "good" /\ sc.log[i].at >= sc.since) =>
                          \E r \in 1..Len(sc.table) : sc.table[r].commit = i

(***************************************************************************)
(* C31: for stdout that is a single JSON object (its result, when present, *)
(* being a string), parsing returns the object's result, session_id and    *)
(* is_error when they are present; a missing result gives the trimmed raw  *)
(* stdout, a missing session_id the caller's session id, a missing         *)
(* is_error false, and missing or null token and cost fields give zero.    *)
(***************************************************************************)
\* tok is the token of raw with the white space at both ends removed
IsTrimmedRaw(tok, raw) ==
    \E i \in 1..(Len(raw) + 1), j \in 0..Len(raw) :
        /\ IsStrippedOf(SubSeq(raw, i, j), raw)
        /\ tok = StrToken(SubSeq(raw, i, j))

StringTokens == {"s:", "s:a", "s:b", "s:A"}

C32_NotJsonGivesRawText ==
    (pr.pc = "done" /\ pr.input.shape = "notjson") =>
        /\ pr.out.exc = "none"
        /\ IsTrimmedRaw(pr.out.result, pr.input.raw)
        /\ pr.out.is_error = "false"
        /\ pr.out.session_id = CallerSid

\* text with white space around it
C32_Witness ==
    /\ pr.pc = "done"
    /\ pr.input.shape = "notjson"
    /\ pr.input.raw = <<" ", "x", " ">>
    /\ pr.out.result = "r:x"
    /\ pr.out.session_id = CallerSid

(***************************************************************************)
(* C33: for stdout that is a JSON array of events: when one event is       *)
(* marked as the final result by its type, parsing returns that event's    *)
(* result, session_id, is_error and token fields; when no event is marked  *)
(* and one assistant event holds a text block, parsing returns that        *)
(* block's text with is_error false.                                       *)
(***************************************************************************)
\* an event marked as the final result, by its type or by its subtype
Marked(ev) ==
    ev.dict /\ ("s:result" \in {ev.type, ev.subtype} \/ ev.subtype = "s:success")

MarkedAt(evs) == {i \in 1..Len(evs) : Marked(evs[i])}

AssistantAt(evs) ==
    {i \in 1..Len(evs) : evs[i].dict /\ evs[i].type = "s:assistant"}

\* the text blocks of an assistant event whose message holds a content list
TextBlocksAt(ev) ==
    {n \in 1..Len(ev.blocks) : ev.blocks[n].dict /\ ev.blocks[n].type = "s:text"}

WellFormed(ev) ==
    /\ ev.message = "dict"
    /\ ev.content = "list"
    /\ \A n \in TextBlocksAt(ev) : ev.blocks[n].text \in StringTokens

C33_ArrayResult ==
    (pr.pc = "done" /\ pr.input.shape = "array") =>
        LET evs == pr.input.events
            out == pr.out
        IN  /\ \A i \in MarkedAt(evs) :
                   (MarkedAt(evs) = {i} /\ evs[i].type = "s:result"
                       /\ evs[i].result \in StringTokens \cup {"absent"}) =>
                       /\ out.exc = "none"
                       /\ evs[i].result # "absent" => out.result = evs[i].result
                       /\ evs[i].session_id # "absent" =>
                              out.session_id = evs[i].session_id
                       /\ evs[i].is_error # "absent" => out.is_error = evs[i].is_error
                       /\ evs[i].input_tokens # "absent" =>
                              out.input_tokens = evs[i].input_tokens
                       /\ evs[i].output_tokens # "absent" =>
                              out.output_tokens = evs[i].output_tokens
                       /\ evs[i].total_cost_usd # "absent" =>
                              out.total_cost = evs[i].total_cost_usd
            /\ \A i \in AssistantAt(evs) :
                   (MarkedAt(evs) = {} /\ AssistantAt(evs) = {i} /\ WellFormed(evs[i])) =>
                       \A n \in TextBlocksAt(evs[i]) :
                           (TextBlocksAt(evs[i]) = {n} /\ evs[i].blocks[n].text # "s:") =>
                               /\ out.exc = "none"
                               /\ out.result = evs[i].blocks[n].text
                               /\ out.is_error = "false"

(***************************************************************************)
(* C34: for a JSON array with no final-result event, the result is the     *)
(* concatenation of all text blocks of the first assistant message of the  *)
(* array; when no assistant message has text, the result is the trimmed    *)
(* raw stdout and the session id the caller's.                             *)
(***************************************************************************)
BlockChars(blk) ==
    IF ~blk.dict \/ blk.type # "s:text" THEN ""
    ELSE CASE blk.text = "s:a" -> "a"
           [] blk.text = "s:b" -> "b"
           [] blk.text = "s:A" -> "A"
           [] OTHER -> ""

RECURSIVE Concatenation(_)
Concatenation(blocks) ==
    IF blocks = << >> THEN "" ELSE BlockChars(Head(blocks)) \o Concatenation(Tail(blocks))

C34_AssistantTextConcatenated ==
    (pr.pc = "done" /\ pr.input.shape = "array" /\ MarkedAt(pr.input.events) = {}
        /\ \A i \in AssistantAt(pr.input.events) : WellFormed(pr.input.events[i])) =>
        LET evs == pr.input.events
            out == pr.out
            withText == {i \in AssistantAt(evs) : Concatenation(evs[i].blocks) # ""}
        IN  /\ out.exc = "none"
            /\ \A i \in AssistantAt(evs) :
                   (\A k \in AssistantAt(evs) : i <= k) =>
                       (Concatenation(evs[i].blocks) # "" =>
                           out.result = "s:" \o Concatenation(evs[i].blocks))
            /\ withText = {} =>
                   /\ IsTrimmedRaw(out.result, pr.input.raw)
                   /\ out.session_id = CallerSid

(***************************************************************************)
(* C35: create_job inserts exactly one new record, with a generated id and *)
(* status pending, and leaves the other records alone; a get_job with the  *)
(* returned id that follows it (before any update_job of that id) returns  *)
(* the thread, channel, message and session id given to create_job and     *)
(* status pending; get_job with an id that was never created returns None. *)
(***************************************************************************)
C35_CreateThenGet ==
    /\ [](lg.got.kind = "job" =>
            IF HasRow(lg, lg.got.job)
            THEN lg.got.value # NoJob =>
                     LET job == lg.got.value[1]
                         args == CreateArgs(lg.got.job)
                     IN  /\ job.id = lg.got.job
                         /\ job.thread_ts = args.thread_ts
                         /\ job.channel = args.channel
                         /\ job.message = args.message
                         /\ job.session_id = args.session_id
                         /\ lg.got.job \notin lg.touched => job.status = "pending"
            ELSE lg.got.value = NoJob)
    /\ [][Len(lg'.rows) # Len(lg.rows) =>
            /\ Len(lg'.rows) = Len(lg.rows) + 1
            /\ SubSeq(lg'.rows, 1, Len(lg.rows)) = lg.rows
            /\ lg'.rows[Len(lg'.rows)].status = "pending"
            /\ \A j \in 1..Len(lg.rows) : lg.rows[j].id # lg'.rows[Len(lg'.rows)].id]_vars
    /\ [][(lg'.got # lg.got /\ lg'.got.kind = "job" /\ HasRow(lg, lg'.got.job)) =>
            lg'.got.value # NoJob]_vars

\* the second job, created with a session id, is read back before any update
C35_Witness ==
    /\ lg.got.kind = "job"
    /\ lg.got.job = 2
    /\ 2 \notin lg.touched
    /\ lg.got.value # NoJob
    /\ lg.got.value[1].status = "pending"
    /\ lg.got.value[1].session_id = <<"S", 2>>
    /\ lg.got.value[1].message = <<"m", 2>>

(***************************************************************************)
(* C36: during one streaming invocation at most one add_progress_event     *)
(* call for the job is in flight: the reader of stdout and the reader of   *)
(* stderr are never both inside the progress callback's                    *)
(* add_progress_event.                                                     *)
(***************************************************************************)
C36_OneAppendInFlight ==
    ~(/\ st.rd = "callback" /\ st.outAppend
      /\ st.er = "callback" /\ st.errAppend)

(***************************************************************************)
(* C37: in batch mode the periodic callback is never called after          *)
(* invoke_claude has returned or raised: on every exit path (success,      *)
(* non-zero exit, timeout, spawn failure) the progress task, when there is *)
(* one that has not ended by itself, was cancelled and has ended before    *)
(* the call ends.                                                          *)
(***************************************************************************)
C37_NoCallbackAfterReturn ==
    /\ [](b.pc = "done" =>
            /\ b.progress \in {"none", "dead", "cancelled"}
            /\ b.outcome = "exec_failed" => b.progress = "none")
    /\ [][b.pc = "done" => (b'.cbs = b.cbs /\ b'.progress = b.progress)]_vars

\* a timeout with a progress task that had called the callback
C37_Witness ==
    /\ b.pc = "done"
    /\ b.outcome = "timeout"
    /\ b.progress = "cancelled"
    /\ b.cbs = 1

(***************************************************************************)
(* C38: for every thread at most one job record is ever created, under any *)
(* interleaving of the handlers that process the events of the thread.     *)
(***************************************************************************)
JobsOf(t) == {j \in 1..Len(jobs) : jobs[j].thread = t}

C38_OneJobPerThread == \A t \in Threads : Cardinality(JobsOf(t)) <= 1

(***************************************************************************)
(* C39: whenever a handler has registered a session for a thread and       *)
(* starts the agent for it, the session id the registry holds for the      *)
(* thread is the session id passed to the agent.                           *)
(***************************************************************************)
AgentRuns(r) == r.pc \in {"invoke", "sse_run"}

C39_RegistryMatchesAgent ==
    [][\A k \in HTasks :
          (~AgentRuns(h[k]) /\ AgentRuns(h'[k]) /\ Truthy(h'[k].newSid)) =>
              SessGet(sessions', h'[k].thread) = h'[k].call.session_id]_vars

(***************************************************************************)
(* C40: during a streaming invocation the running text of the accumulator  *)
(* is the text of the last assistant message followed by all the text      *)
(* deltas read since, however the stderr lines interleave with the stdout  *)
(* lines; and reading a text delta never starts a callback.                *)
(***************************************************************************)
ReadsDelta ==
    /\ st.rd = "reading"
    /\ st.buf # << >>
    /\ Head(st.buf).kind = "delta"
    /\ st'.buf = Tail(st.buf)

DeltaIsSilent ==
    ReadsDelta => st'.rd = "reading" /\ st'.lastSent = st.lastSent /\ st'.er = st.er

C40_RunningText ==
    /\ [](st.progress.text = st.lastMsg \o st.deltas)
    /\ [][DeltaIsSilent]_vars

====
